---- MODULE Spec2Model ----
(***************************************************************************)
(* A model of the multi-provider bucket probing engine of                  *)
(* public-bucket-scanner: the three provider probes (S3, GCS, Azure Blob), *)
(* the composite BaseScanner.scan_bucket and the ScanOrchestrator.         *)
(*                                                                         *)
(* Each area of the program has its own variables and its own              *)
(* specification; a specification holds the variables of the other areas   *)
(* at their idle values.                                                   *)
(***************************************************************************)
EXTENDS Integers, Sequences, FiniteSets, TLC

VARIABLES
    \* ---- ScanOrchestrator (orchestrator.py)
    o_pc,        \* "idle" | "running" | "done": position of the top-level call
    o_op,        \* "none" | "scan_bucket" | "scan_multiple_buckets"
    o_names,     \* the bucket names the top-level call was given
    o_provider,  \* the provider argument: None or a CloudProvider
    o_calls,     \* bucket name -> the state of its ScanOrchestrator.scan_bucket coroutine
    o_out,       \* what the top-level call returned
    o_raised,    \* whether the top-level call raised
    o_scanners,  \* self.scanners: each provider's probe, as the probe's fields
    \* ---- check_bucket_exists of one probe
    e_pc,        \* "idle" | "head" | "native" | "done"
    e_provider,  \* the probe the call is made on
    e_env,       \* what the network and the provider would answer
    e_consulted, \* whether the native client was called
    e_result,    \* the value returned
    e_raised,    \* whether the call raised
    \* ---- check_public_access of one probe
    a_pc,        \* "idle" | "done"
    a_provider,  \* the probe the call is made on
    a_env,       \* what the network and the provider would answer, layer by layer
    a_ret,       \* the outcome of the call: level, layers evaluated, handler taken
    a_raised,    \* whether the call raised
    \* ---- list_files of one probe
    l_pc,        \* "idle" | "done"
    l_provider,  \* the probe the call is made on
    l_args,      \* max_files, and what the provider would answer
    l_ret,       \* the outcome: the keys returned, and whether the listing failed
    l_raised,    \* whether the call raised
    \* ---- BaseScanner.scan_bucket of one probe
    s_pc,        \* "idle" | "exists" | "access" | "permissions" | "list" | "build" |
                 \* "except" | "done"
    s_provider,  \* the probe the scan runs on
    s_bucket,    \* bucket_name
    s_local,     \* the locals access_level, is_accessible, permissions, files_found,
                 \* sensitive_files
    s_calls,     \* the primitive operations called so far, in order
    s_exc,       \* the exception being handled: the step that raised and its message
    s_result,    \* the BucketScanResult returned
    s_raised,    \* whether scan_bucket raised
    \* ---- get_bucket_permissions of one probe
    p_pc,        \* "idle" | "done"
    p_provider,  \* the probe the call runs on
    p_env,       \* whether the probe has a client, whether building the handle
                 \* raises, and how each call of the battery ends
    p_ret,       \* the permissions returned and the calls of the battery made
    p_raised,    \* whether the call raised
    \* ---- ContentAnalyzer.analyze
    c_last,      \* the last call of analyze: its file list and its result
    c_prev,      \* the call before the last one
    \* ---- PermissionChecker.analyze_permissions
    k_pc,        \* "idle" | "done"
    k_args,      \* permissions, is_public and files_found of the call
    k_ret,       \* the PermissionCheckResult returned
    \* ---- QueueConsumer.process_task
    t_pc,        \* "idle", "scanning", "handing" or "done"
    t_task,      \* the task dictionary being processed
    t_callback,  \* whether a result_callback was given
    t_scans,     \* the arguments of each orchestrator.scan_bucket call made
    t_results,   \* Some(results) once scan_bucket has returned
    t_handed,    \* the results result_callback was invoked with, in order
    t_raised,    \* whether process_task let an exception out
    \* ---- RateLimiter and AdaptiveRateLimiter
    r_kind,      \* "none", "RateLimiter" or "AdaptiveRateLimiter"
    r_max_requests, \* self.max_requests
    r_requests,  \* self.requests, as the age of each grant, oldest first
    r_callers,   \* each caller's acquire call
    r_min_rate,  \* self.min_rate
    r_max_rate,  \* self.max_rate
    r_success_count, \* self.success_count
    r_failure_count, \* self.failure_count
    r_streak,    \* the run of consecutive reports under way
    r_granted,   \* the ages of the grants of the last time_window, oldest first
    \* ---- the scan queue
    q_list,      \* the Redis list "scan_queue", head first
    q_pub,       \* each producer's publish_scan_task call
    q_con,       \* each consumer's consume_task call
    q_next,      \* the id of the next publish_scan_task call
    q_published, \* the ids of the tasks put on the list, in LPUSH order
    q_consumed,  \* the ids of the tasks taken from the list, in BRPOP order
    \* ---- persisting a result
    d_result,    \* the BucketScanResult being saved
    d_rows,      \* the risk_level and risk_score each path stored for it
    \* ---- QueueConsumer.start
    w_running,   \* self.running
    w_max,       \* max_concurrent of the call of start
    w_value,     \* the value of the semaphore
    w_pending,   \* the tasks in the queue, oldest first
    w_jobs,      \* where each task is: none, queued, waiting, running, done
    w_loop,      \* where the consume loop is: idle, test, consume, sleep, exited
    w_outcome,   \* how process_task ended for each task
    w_taken,     \* how often each task was taken from the queue
    \* ---- the life of a ScanTask
    j_next,      \* the id the next ScanTask row gets
    j_db,        \* the stored status of each ScanTask, or absent
    j_list,      \* the task ids of the messages in the queue
    j_work,      \* the task the worker holds, or NoTask
    j_processed, \* the tasks the worker has processed
    j_report,    \* the last answer of the task-status endpoint
    \* ---- HTTPProbe.probe_with_retry (workers/http_probe.py)
    h_pc,        \* "idle", "for", "probe", "sleep", "returned", "raised"
    h_max,       \* self.max_retries
    h_args,      \* the arguments url and method
    h_attempt,   \* the loop variable attempt
    h_last,      \* last_result: <<>> for None, or <<result>>
    h_ret,       \* the value returned: <<>> for None, or <<result>>
    h_exc,       \* the exception probe_with_retry raised, or None
    h_results,   \* history: the results of the probes made by the call
    h_slept      \* history: the pauses the call completed

orchVars == <<o_pc, o_op, o_names, o_provider, o_calls, o_out, o_raised, o_scanners>>
existsVars == <<e_pc, e_provider, e_env, e_consulted, e_result, e_raised>>
accessVars == <<a_pc, a_provider, a_env, a_ret, a_raised>>
listVars == <<l_pc, l_provider, l_args, l_ret, l_raised>>
scanVars == <<s_pc, s_provider, s_bucket, s_local, s_calls, s_exc, s_result, s_raised>>
permVars == <<p_pc, p_provider, p_env, p_ret, p_raised>>
analyzerVars == <<c_last, c_prev>>
checkerVars == <<k_pc, k_args, k_ret>>
consumerVars == <<t_pc, t_task, t_callback, t_scans, t_results, t_handed, t_raised>>
limiterVars == <<r_kind, r_max_requests, r_requests, r_callers, r_min_rate, r_max_rate, r_success_count, r_failure_count, r_streak, r_granted>>
queueVars == <<q_list, q_pub, q_con, q_next, q_published, q_consumed>>
saveVars == <<d_result, d_rows>>
startVars == <<w_running, w_max, w_value, w_pending, w_jobs, w_loop, w_outcome, w_taken>>
taskVars == <<j_next, j_db, j_list, j_work, j_processed, j_report>>
probeVars == <<h_pc, h_max, h_args, h_attempt, h_last, h_ret, h_exc, h_results, h_slept>>

\* what an operation of one area leaves alone: the variables of the other areas
OrchFrame == UNCHANGED <<existsVars, accessVars, listVars, scanVars, permVars, analyzerVars, checkerVars, consumerVars, limiterVars, queueVars, saveVars, startVars, taskVars, probeVars>>
ExistsFrame == UNCHANGED <<orchVars, accessVars, listVars, scanVars, permVars, analyzerVars, checkerVars, consumerVars, limiterVars, queueVars, saveVars, startVars, taskVars, probeVars>>
AccessFrame == UNCHANGED <<orchVars, existsVars, listVars, scanVars, permVars, analyzerVars, checkerVars, consumerVars, limiterVars, queueVars, saveVars, startVars, taskVars, probeVars>>
ListFrame == UNCHANGED <<orchVars, existsVars, accessVars, scanVars, permVars, analyzerVars, checkerVars, consumerVars, limiterVars, queueVars, saveVars, startVars, taskVars, probeVars>>
ScanFrame == UNCHANGED <<orchVars, existsVars, accessVars, listVars, permVars, analyzerVars, checkerVars, consumerVars, limiterVars, queueVars, saveVars, startVars, taskVars, probeVars>>
PermFrame == UNCHANGED <<orchVars, existsVars, accessVars, listVars, scanVars, analyzerVars, checkerVars, consumerVars, limiterVars, queueVars, saveVars, startVars, taskVars, probeVars>>
AnalyzerFrame == UNCHANGED <<orchVars, existsVars, accessVars, listVars, scanVars, permVars, checkerVars, consumerVars, limiterVars, queueVars, saveVars, startVars, taskVars, probeVars>>
CheckerFrame == UNCHANGED <<orchVars, existsVars, accessVars, listVars, scanVars, permVars, analyzerVars, consumerVars, limiterVars, queueVars, saveVars, startVars, taskVars, probeVars>>
ConsumerFrame == UNCHANGED <<orchVars, existsVars, accessVars, listVars, scanVars, permVars, analyzerVars, checkerVars, limiterVars, queueVars, saveVars, startVars, taskVars, probeVars>>
LimiterFrame == UNCHANGED <<orchVars, existsVars, accessVars, listVars, scanVars, permVars, analyzerVars, checkerVars, consumerVars, queueVars, saveVars, startVars, taskVars, probeVars>>
QueueFrame == UNCHANGED <<orchVars, existsVars, accessVars, listVars, scanVars, permVars, analyzerVars, checkerVars, consumerVars, limiterVars, saveVars, startVars, taskVars, probeVars>>
SaveFrame == UNCHANGED <<orchVars, existsVars, accessVars, listVars, scanVars, permVars, analyzerVars, checkerVars, consumerVars, limiterVars, queueVars, startVars, taskVars, probeVars>>
StartFrame == UNCHANGED <<orchVars, existsVars, accessVars, listVars, scanVars, permVars, analyzerVars, checkerVars, consumerVars, limiterVars, queueVars, saveVars, taskVars, probeVars>>
TaskFrame == UNCHANGED <<orchVars, existsVars, accessVars, listVars, scanVars, permVars, analyzerVars, checkerVars, consumerVars, limiterVars, queueVars, saveVars, startVars, probeVars>>
ProbeFrame == UNCHANGED <<orchVars, existsVars, accessVars, listVars, scanVars, permVars, analyzerVars, checkerVars, consumerVars, limiterVars, queueVars, saveVars, startVars, taskVars>>

(***************************************************************************)
(* Shared vocabulary (base_scanner.py)                                     *)
(***************************************************************************)
None == "None"

\* CloudProvider, in the order ScanOrchestrator.__init__ inserts the scanners
Providers == <<"aws_s3", "gcp_gcs", "azure_blob">>
ProviderSet == {Providers[i] : i \in 1..Len(Providers)}

\* BucketAccessLevel
PRIVATE == "private"
PUBLIC_READ == "public-read"
PUBLIC_WRITE == "public-write"
PUBLIC_READ_WRITE == "public-read-write"
AUTHENTICATED_READ == "authenticated-read"
UNKNOWN == "unknown"
AccessLevels == {PRIVATE, PUBLIC_READ, PUBLIC_WRITE, PUBLIC_READ_WRITE,
                 AUTHENTICATED_READ, UNKNOWN}

(***************************************************************************)
(* ScanOrchestrator                                                        *)
(***************************************************************************)
\* the longest bucket_names list given to scan_multiple_buckets
MaxBatch == 2
BucketNames == {"acme", "acme-backup"}

RECURSIVE SeqsUpTo(_, _)
SeqsUpTo(S, n) ==
    IF n = 0 THEN {<<>>}
    ELSE LET shorter == SeqsUpTo(S, n - 1)
         IN shorter \cup {Append(s, x) : s \in {t \in shorter : Len(t) = n - 1}, x \in S}

\* what a probe's scan_bucket hands back for (provider, bucket): the orchestrator
\* only passes the object on, so it is identified by the scan that produced it
ProbeResult(p, b) == [kind |-> "BucketScanResult", provider |-> p, bucket_name |-> b]
\* an exception object that asyncio.gather(return_exceptions=True) put in its result
ExceptionObject(p, b) == [kind |-> "Exception", provider |-> p, bucket_name |-> b]

\* the keys of {bucket_name: ... for bucket_name in bucket_names}, in dict order:
\* a repeated name keeps its first position
RECURSIVE DictKeys(_)
DictKeys(names) ==
    IF names = <<>> THEN <<>>
    ELSE LET front == DictKeys(SubSeq(names, 1, Len(names) - 1))
             last == names[Len(names)]
         IN IF \E i \in 1..Len(front) : front[i] = last THEN front ELSE Append(front, last)

SeqRange(s) == {s[i] : i \in 1..Len(s)}

\* a provider argument that is not None and is no key of self.scanners (for
\* instance a provider's name passed as a plain string)
OtherProvider == "other"
ProviderArgs == ProviderSet \cup {None, OtherProvider}

\* self.scanners.get(provider): the probe registered for the provider, or None
ScannersGetFirst(prov) == Providers[1]
ScannersGet(prov) == IF prov \in ProviderSet THEN prov ELSE None

\* a scan_bucket coroutine that has been created and not yet run
NewCall(prov) ==
    [pc |-> "start", provider |-> prov, scanner |-> None,
     task |-> [p \in ProviderSet |-> "none"],
     ret |-> <<>>, exc |-> FALSE]

\* asyncio.gather(*tasks, return_exceptions=True) over the probes' scan_bucket,
\* in the order of self.scanners.values()
GatherProbes(call, b) ==
    [i \in 1..Len(Providers) |->
        IF call.task[Providers[i]] = "returned"
        THEN ProbeResult(o_scanners[Providers[i]].provider, b)
        ELSE ExceptionObject(Providers[i], b)]

IsBucketScanResult(r) == r.kind = "BucketScanResult"

\* results = [r for r in results if isinstance(r, BucketScanResult)]
FilterResultsUnfiltered(gathered) == gathered
FilterResults(gathered) == SelectSeq(gathered, IsBucketScanResult)

\* the fields __init__ gives a probe: its provider and its provider client
ScannerFields(p) == [provider |-> p, client |-> "client"]
\* self.scanners after ScanOrchestrator.__init__
NewScanners == [p \in ProviderSet |-> ScannerFields(p)]

\* a probe's fields after its scan_bucket(bucket_name) has run: no step of the
\* scan assigns to self
FieldsAfterScanKeepsBucket(fields, bucket_name) == [fields EXCEPT !.client = bucket_name]
FieldsAfterScan(fields, bucket_name) == fields

\* a caller invokes ScanOrchestrator.scan_bucket(name, provider)
CallScanBucket ==
    /\ o_pc = "idle"
    /\ \E b \in BucketNames, prov \in ProviderArgs :
        /\ o_names' = <<b>>
        /\ o_provider' = prov
        /\ o_calls' = [n \in {b} |-> NewCall(prov)]
    /\ o_op' = "scan_bucket"
    /\ o_pc' = "running"
    /\ UNCHANGED <<o_out, o_raised>>
    /\ UNCHANGED o_scanners
    /\ OrchFrame

\* a caller invokes scan_multiple_buckets(bucket_names, provider): one scan_bucket
\* coroutine per key of the tasks dict
CallScanMultipleBuckets ==
    /\ o_pc = "idle"
    /\ \E names \in SeqsUpTo(BucketNames, MaxBatch), prov \in ProviderArgs :
        /\ o_names' = names
        /\ o_provider' = prov
        /\ o_calls' = [n \in SeqRange(DictKeys(names)) |-> NewCall(prov)]
    /\ o_op' = "scan_multiple_buckets"
    /\ o_pc' = "running"
    /\ UNCHANGED <<o_out, o_raised>>
    /\ UNCHANGED o_scanners
    /\ OrchFrame

\* scan_bucket runs up to its first await: either the one scanner's scan_bucket
\* is awaited, or every scanner's scan_bucket is handed to gather; with a
\* provider that has no scanner it runs to its return with no result
StartCall(b) ==
    /\ o_pc = "running"
    /\ o_calls[b].pc = "start"
    /\ LET c == o_calls[b]
           scanner == ScannersGet(c.provider)
       IN o_calls' = [o_calls EXCEPT ![b] =
            IF c.provider # None
            THEN IF scanner # None
                 THEN [c EXCEPT !.pc = "await_single",
                                !.scanner = scanner,
                                !.task = [p \in ProviderSet |->
                                             IF p = scanner THEN "running" ELSE "none"]]
                 ELSE [c EXCEPT !.pc = "done"]
            ELSE [c EXCEPT !.pc = "gathering",
                           !.task = [p \in ProviderSet |-> "running"]]]
    /\ UNCHANGED <<o_pc, o_op, o_names, o_provider, o_out, o_raised>>
    /\ UNCHANGED o_scanners
    /\ OrchFrame

\* a probe's scan_bucket returns its BucketScanResult
ProbeReturns(b, p) ==
    /\ o_pc = "running"
    /\ o_calls[b].task[p] = "running"
    /\ o_calls' = [o_calls EXCEPT ![b].task[p] = "returned"]
    /\ UNCHANGED <<o_pc, o_op, o_names, o_provider, o_out, o_raised>>
    /\ o_scanners' = [o_scanners EXCEPT ![p] = FieldsAfterScan(@, b)]
    /\ OrchFrame

\* a probe's scan_bucket raises past its own boundary
ProbeRaises(b, p) ==
    /\ o_pc = "running"
    /\ o_calls[b].task[p] = "running"
    /\ o_calls' = [o_calls EXCEPT ![b].task[p] = "raised"]
    /\ UNCHANGED <<o_pc, o_op, o_names, o_provider, o_out, o_raised>>
    /\ o_scanners' = [o_scanners EXCEPT ![p] = FieldsAfterScan(@, b)]
    /\ OrchFrame

\* result = await scanner.scan_bucket(bucket_name); results.append(result)
FinishSingle(b) ==
    /\ o_pc = "running"
    /\ o_calls[b].pc = "await_single"
    /\ LET c == o_calls[b]
       IN /\ c.task[c.scanner] \in {"returned", "raised"}
          /\ o_calls' = [o_calls EXCEPT ![b] =
                IF c.task[c.scanner] = "returned"
                THEN [c EXCEPT !.pc = "done",
                               !.ret = <<ProbeResult(o_scanners[c.scanner].provider, b)>>]
                ELSE [c EXCEPT !.pc = "done", !.exc = TRUE]]
    /\ UNCHANGED <<o_pc, o_op, o_names, o_provider, o_out, o_raised>>
    /\ UNCHANGED o_scanners
    /\ OrchFrame

\* gather resumes once every task is done; exceptions are filtered out
FinishGather(b) ==
    /\ o_pc = "running"
    /\ o_calls[b].pc = "gathering"
    /\ \A p \in ProviderSet : o_calls[b].task[p] \in {"returned", "raised"}
    /\ o_calls' = [o_calls EXCEPT ![b].pc = "done",
                                  ![b].ret = FilterResults(GatherProbes(o_calls[b], b))]
    /\ UNCHANGED <<o_pc, o_op, o_names, o_provider, o_out, o_raised>>
    /\ UNCHANGED o_scanners
    /\ OrchFrame

\* the top-level scan_bucket hands its result (or its exception) to the caller
ReturnScanBucket ==
    /\ o_pc = "running"
    /\ o_op = "scan_bucket"
    /\ LET c == o_calls[o_names[1]]
       IN /\ c.pc = "done"
          /\ o_out' = c.ret
          /\ o_raised' = c.exc
    /\ o_pc' = "done"
    /\ UNCHANGED <<o_op, o_names, o_provider, o_calls>>
    /\ UNCHANGED o_scanners
    /\ OrchFrame

\* scan_multiple_buckets: gather(*tasks.values(), return_exceptions=True), then
\* zip(tasks.keys(), results): a list is kept, anything else becomes []
MapBatchAbortOnError(calls) ==
    [raised |-> \E b \in DOMAIN calls : calls[b].exc,
     out |-> [b \in DOMAIN calls |-> calls[b].ret]]
MapBatch(calls) ==
    [raised |-> FALSE,
     out |-> [b \in DOMAIN calls |-> IF calls[b].exc THEN <<>> ELSE calls[b].ret]]

ReturnScanMultipleBuckets ==
    /\ o_pc = "running"
    /\ o_op = "scan_multiple_buckets"
    /\ \A b \in DOMAIN o_calls : o_calls[b].pc = "done"
    /\ o_out' = MapBatch(o_calls).out
    /\ o_raised' = MapBatch(o_calls).raised
    /\ o_pc' = "done"
    /\ UNCHANGED <<o_op, o_names, o_provider, o_calls>>
    /\ UNCHANGED o_scanners
    /\ OrchFrame

OrchNext ==
    \/ CallScanBucket
    \/ CallScanMultipleBuckets
    \/ \E b \in DOMAIN o_calls : StartCall(b)
    \/ \E b \in DOMAIN o_calls, p \in ProviderSet : ProbeReturns(b, p)
    \/ \E b \in DOMAIN o_calls, p \in ProviderSet : ProbeRaises(b, p)
    \/ \E b \in DOMAIN o_calls : FinishSingle(b)
    \/ \E b \in DOMAIN o_calls : FinishGather(b)
    \/ ReturnScanBucket
    \/ ReturnScanMultipleBuckets


(***************************************************************************)
(* Claims about the ScanOrchestrator                                       *)
(***************************************************************************)
\* the probes of call c that returned normally, in scanner order, as results
ReturnedResults(c, b) ==
    LET rp == SelectSeq(Providers, LAMBDA p : c.task[p] = "returned")
    IN [i \in 1..Len(rp) |-> ProbeResult(rp[i], b)]

\* C1: scan_bucket(name, provider=None) starts all three probes together, returns
\* only once every probe has finished, never raises, and returns exactly the
\* results of the probes that returned normally (between 0 and 3 of them).
C1_FanOutPartialResults ==
    /\ \A b \in DOMAIN o_calls :
          o_calls[b].pc = "gathering" =>
              \A p \in ProviderSet : o_calls[b].task[p] # "none"
    /\ (o_op = "scan_bucket" /\ o_provider = None /\ o_pc = "done") =>
          LET b == o_names[1]
              c == o_calls[b]
          IN /\ ~o_raised
             /\ \A p \in ProviderSet : c.task[p] \in {"returned", "raised"}
             /\ o_out = ReturnedResults(c, b)
             /\ Len(o_out) \in 0..3

\* a fan-out in which one probe raised and another returned has completed
C1_Witness ==
    /\ o_op = "scan_bucket" /\ o_provider = None /\ o_pc = "done"
    /\ \E p, q \in ProviderSet :
          /\ o_calls[o_names[1]].task[p] = "raised"
          /\ o_calls[o_names[1]].task[q] = "returned"
    /\ Len(o_out) = 2

\* C3: scan_multiple_buckets runs one scan_bucket per bucket name and returns a
\* mapping with an entry for every input name: the empty sequence for a bucket
\* whose scan raised, and for every other bucket exactly what its own scan
\* returned; the batch itself never raises.
C3_BatchIsolation ==
    /\ o_op = "scan_multiple_buckets" /\ o_pc # "idle" =>
          DOMAIN o_calls = SeqRange(o_names)
    /\ (o_op = "scan_multiple_buckets" /\ o_pc = "done") =>
          /\ ~o_raised
          /\ DOMAIN o_out = SeqRange(o_names)
          /\ \A b \in DOMAIN o_out :
                LET c == o_calls[b]
                IN /\ c.exc => o_out[b] = <<>>
                   /\ ~c.exc =>
                        /\ o_out[b] = c.ret
                        /\ o_out[b] = IF c.provider = None
                                      THEN ReturnedResults(c, b)
                                      ELSE IF c.provider \in ProviderSet
                                      THEN <<ProbeResult(c.provider, b)>>
                                      ELSE <<>>
                   /\ \A i \in 1..Len(o_out[b]) :
                        /\ IsBucketScanResult(o_out[b][i])
                        /\ o_out[b][i].bucket_name = b

\* a batch of two buckets has completed in which one bucket's scan raised and
\* the other bucket's entry holds its result
C3_Witness ==
    /\ o_op = "scan_multiple_buckets" /\ o_pc = "done"
    /\ \E b1, b2 \in DOMAIN o_calls :
          /\ b1 # b2
          /\ o_calls[b1].exc /\ o_out[b1] = <<>>
          /\ ~o_calls[b2].exc /\ Len(o_out[b2]) = 1

\* what scan_bucket(b, prov) returns when it runs alone on freshly built
\* scanners and the probes answer as in responses ("returned" or "raised")
ScanAlone(b, prov, responses) ==
    IF prov = None
    THEN LET rp == SelectSeq(Providers, LAMBDA p : responses[p] = "returned")
         IN [i \in 1..Len(rp) |-> ProbeResult(NewScanners[rp[i]].provider, b)]
    ELSE IF prov \in DOMAIN NewScanners /\ responses[prov] = "returned"
         THEN <<ProbeResult(NewScanners[prov].provider, b)>>
         ELSE <<>>

HeadStatuses == {200, 301, 403, 404, 409, 500}
HeadOutcomes ==
    {[error |-> FALSE, status |-> st] : st \in HeadStatuses} \cup {[error |-> TRUE, status |-> 0]}

\* what the provider's native existence call can do
NativeOutcomes == {"ok", "not_found", "access_denied", "server_error", "transport_error"}

\* the exception the native existence call raises for an outcome:
\* boto3 head_bucket, google-cloud-storage bucket.reload,
\* azure-storage-blob get_container_properties
NativeException(provider, outcome) ==
    CASE provider = "aws_s3" ->
            (CASE outcome = "not_found" -> [class |-> "ClientError", code |-> "404"]
               [] outcome = "access_denied" -> [class |-> "ClientError", code |-> "403"]
               [] outcome = "server_error" -> [class |-> "ClientError", code |-> "500"]
               [] OTHER -> [class |-> "EndpointConnectionError", code |-> ""])
      [] provider = "gcp_gcs" ->
            (CASE outcome = "not_found" -> [class |-> "NotFound", code |-> "404"]
               [] outcome = "access_denied" -> [class |-> "Forbidden", code |-> "403"]
               [] outcome = "server_error" -> [class |-> "InternalServerError", code |-> "500"]
               [] OTHER -> [class |-> "TransportError", code |-> ""])
      [] OTHER ->
            (CASE outcome = "not_found" -> [class |-> "ResourceNotFoundError", code |-> "404"]
               [] outcome = "access_denied" -> [class |-> "HttpResponseError", code |-> "403"]
               [] outcome = "server_error" -> [class |-> "HttpResponseError", code |-> "500"]
               [] OTHER -> [class |-> "ServiceRequestError", code |-> ""])

\* isinstance for the exception classes the except clauses name; every class is an
\* Exception, and azure's ResourceNotFoundError is an HttpResponseError
IsInstance(exc, class) ==
    \/ class = "Exception"
    \/ exc.class = class
    \/ exc.class = "ResourceNotFoundError" /\ class = "HttpResponseError"

\* the status codes each probe reads as "exists"
ExistsStatuses(provider) ==
    CASE provider = "aws_s3" -> {200, 403, 301}
      [] provider = "gcp_gcs" -> {200, 403}
      [] OTHER -> {200, 403, 409}

\* the fallback to the native client, after the HEAD request failed
AzureNativeExists(exc) ==
    IF IsInstance(exc, "ResourceNotFoundError") THEN FALSE
    ELSE IF IsInstance(exc, "HttpResponseError") THEN TRUE
    ELSE FALSE

NativeExists(provider, outcome) ==
    IF outcome = "ok" THEN TRUE
    ELSE LET exc == NativeException(provider, outcome)
         IN CASE provider = "aws_s3" ->
                    IF IsInstance(exc, "ClientError") THEN exc.code = "403" ELSE FALSE
              [] provider = "gcp_gcs" ->
                    IF IsInstance(exc, "NotFound") THEN FALSE
                    ELSE IF IsInstance(exc, "Forbidden") THEN TRUE
                    ELSE FALSE
              [] OTHER -> AzureNativeExists(exc)

\* the S3 and GCS probes always hold a native client (anonymous at least); the
\* Azure probe holds none when it was built without credentials
ExistsEnvs(provider) ==
    {[head |-> h, hasClient |-> c, native |-> n] :
        h \in HeadOutcomes, c \in BOOLEAN, n \in NativeOutcomes \cup {"n/a"}}

ExistsEnvOk(provider, env) ==
    /\ provider # "azure_blob" => env.hasClient
    /\ env.hasClient <=> env.native # "n/a"

\* check_bucket_exists(bucket_name) is called on a probe
CallCheckBucketExists ==
    /\ e_pc = "idle"
    /\ \E p \in ProviderSet :
         \E env \in {x \in ExistsEnvs(p) : ExistsEnvOk(p, x)} :
            /\ e_provider' = p
            /\ e_env' = env
    /\ e_pc' = "head"
    /\ UNCHANGED <<e_consulted, e_result, e_raised>>
    /\ ExistsFrame

\* response = await client.head(url, timeout=5.0)
HeadProbe ==
    /\ e_pc = "head"
    /\ IF ~e_env.head.error
       THEN /\ e_result' = (e_env.head.status \in ExistsStatuses(e_provider))
            /\ e_pc' = "done"
       ELSE /\ e_pc' = "native"
            /\ UNCHANGED e_result
    /\ UNCHANGED <<e_provider, e_env, e_consulted, e_raised>>
    /\ ExistsFrame

\* except Exception: fall back to the native client
NativeFallback ==
    /\ e_pc = "native"
    /\ IF e_env.hasClient
       THEN /\ e_consulted' = TRUE
            /\ e_result' = NativeExists(e_provider, e_env.native)
       ELSE /\ e_result' = FALSE
            /\ UNCHANGED e_consulted
    /\ e_pc' = "done"
    /\ UNCHANGED <<e_provider, e_env, e_raised>>
    /\ ExistsFrame

ExistsNext ==
    \/ CallCheckBucketExists
    \/ HeadProbe
    \/ NativeFallback

\* C9: check_bucket_exists never raises; a HEAD response decides alone (true
\* exactly for the provider's status set, the native client not consulted); only
\* when HEAD fails is the native client used, where success or access denied
\* gives true and not-found, every other failure, or having no client gives false.
C9_ExistsDecision ==
    e_pc = "done" =>
        /\ ~e_raised
        /\ ~e_env.head.error =>
              /\ e_result = (e_env.head.status \in ExistsStatuses(e_provider))
              /\ ~e_consulted
        /\ e_env.head.error =>
              /\ e_consulted = e_env.hasClient
              /\ e_result = (e_env.hasClient /\ e_env.native \in {"ok", "access_denied"})

(***************************************************************************)
(* check_public_access (aws_scanner.py, gcp_scanner.py, azure_scanner.py)  *)
(***************************************************************************)
\* the longest grant list of an S3 ACL and binding list of a GCS IAM policy
MaxGrants == 2

\* the anonymous GET of the canonical URL: a status, or a failure
GetStatuses == {200, 403, 404}
GetOutcomes ==
    {[error |-> FALSE, status |-> st] : st \in GetStatuses} \cup {[error |-> TRUE, status |-> 0]}

\* the detection layers of each probe, in the order the code evaluates them; the
\* Azure container-properties layer exists only when the probe holds a client
Layers(provider, env) ==
    CASE provider = "aws_s3" -> <<"http", "acl", "policy", "block">>
      [] provider = "gcp_gcs" -> <<"http", "iam", "list">>
      [] OTHER -> IF env.hasClient THEN <<"http", "props", "anon_list">>
                  ELSE <<"http", "anon_list">>

\* ---- S3
\* Grantee URI of a grant: the AllUsers group, the AuthenticatedUsers group, or
\* none (a canonical user); Permission is S3's closed set
GranteeUris == {"http://acs.amazonaws.com/groups/global/AllUsers",
                "http://acs.amazonaws.com/groups/global/AuthenticatedUsers",
                ""}
S3Permissions == {"FULL_CONTROL", "READ", "READ_ACP", "WRITE", "WRITE_ACP"}
S3Grants == {[uri |-> u, permission |-> pm] : u \in GranteeUris, pm \in S3Permissions}

\* 'AllUsers' in uri, 'AuthenticatedUsers' in uri
UriContains(uri, group) ==
    \/ group = "AllUsers" /\ uri = "http://acs.amazonaws.com/groups/global/AllUsers"
    \/ group = "AuthenticatedUsers"
          /\ uri = "http://acs.amazonaws.com/groups/global/AuthenticatedUsers"

\* the loop over acl['Grants']: the first grant that returns decides
RECURSIVE AclVerdictFullControlReads(_)
AclVerdictFullControlReads(grants) ==
    IF grants = <<>> THEN None
    ELSE LET g == Head(grants)
         IN IF UriContains(g.uri, "AllUsers")
            THEN IF g.permission \in {"FULL_CONTROL", "READ", "READ_ACP"} THEN PUBLIC_READ
                 ELSE IF g.permission \in {"WRITE", "WRITE_ACP"} THEN PUBLIC_WRITE
                 ELSE AclVerdictFullControlReads(Tail(grants))
            ELSE IF UriContains(g.uri, "AuthenticatedUsers") THEN AUTHENTICATED_READ
            ELSE AclVerdictFullControlReads(Tail(grants))
RECURSIVE AclVerdict(_)
AclVerdict(grants) ==
    IF grants = <<>> THEN None
    ELSE LET g == Head(grants)
         IN IF UriContains(g.uri, "AllUsers")
            THEN IF g.permission = "FULL_CONTROL" THEN PUBLIC_READ_WRITE
                 ELSE IF g.permission \in {"READ", "READ_ACP"} THEN PUBLIC_READ
                 ELSE IF g.permission \in {"WRITE", "WRITE_ACP"} THEN PUBLIC_WRITE
                 ELSE AclVerdict(Tail(grants))
            ELSE IF UriContains(g.uri, "AuthenticatedUsers") THEN AUTHENTICATED_READ
            ELSE AclVerdict(Tail(grants))

\* the bucket policy: a list of statements, each given by the JSON text of its
\* Principal and of its Action; the policy text holds, for every statement,
\* "Principal":<principal> and "Action":<action>
MaxStatements == 2
S3Principals == {"\"*\"", "{\"AWS\":\"*\"}",
                 "{\"AWS\":\"arn:aws:iam::123456789012:root\"}"}
S3Actions == {"\"s3:GetObject\"", "[\"s3:GetObject\",\"s3:ListBucket\"]",
              "\"s3:PutObject\""}
S3Statements == [Principal : S3Principals, Action : S3Actions]
S3Policies == SeqsUpTo(S3Statements, 1)

\* '"<key>":<value>' in policy_str: the text occurs in some statement
InPolicyStr(policy, key, value) ==
    \E i \in 1..Len(policy) : policy[i][key] = value

\* if '"Principal":"*"' in policy_str or '"Principal":{"AWS":"*"}' in policy_str:
\*     if '"Action":"s3:GetObject"' in policy_str: return PUBLIC_READ
PolicyVerdict(policy) ==
    IF InPolicyStr(policy, "Principal", "\"*\"")
       \/ InPolicyStr(policy, "Principal", "{\"AWS\":\"*\"}")
    THEN IF InPolicyStr(policy, "Action", "\"s3:GetObject\"") THEN PUBLIC_READ ELSE None
    ELSE None

\* PublicAccessBlockConfiguration: the four switches
BlockSwitches == {"BlockPublicAcls", "IgnorePublicAcls", "BlockPublicPolicy",
                  "RestrictPublicBuckets"}
BlockConfigs ==
    {[sw \in BlockSwitches |-> FALSE],
     [sw \in BlockSwitches |-> TRUE],
     [sw \in BlockSwitches |-> sw = "BlockPublicAcls"]}

\* if not any(config.values()): return UNKNOWN
BlockVerdict(config) ==
    IF ~(\E sw \in DOMAIN config : config[sw]) THEN UNKNOWN ELSE None

\* a native call either returns data or raises an exception of a class
NoExc == ""
S3ExceptionClasses == {"ClientError", "EndpointConnectionError"}
GcsExceptionClasses == {"Forbidden", "TransportError"}
AzureExceptionClasses == {"HttpResponseError", "ServiceRequestError"}

Raises(classes) == {[exc |-> c, data |-> None] : c \in classes}
Returns(values) == {[exc |-> NoExc, data |-> v] : v \in values}

\* get_bucket_acl, get_bucket_policy, get_public_access_block
AclOutcomes == Returns(SeqsUpTo(S3Grants, MaxGrants)) \cup Raises(S3ExceptionClasses)
PolicyOutcomes == Returns(S3Policies) \cup Raises(S3ExceptionClasses)
BlockOutcomes == Returns(BlockConfigs) \cup Raises(S3ExceptionClasses)

\* ---- GCS
GcsMembers == {<<"allUsers">>, <<"allAuthenticatedUsers">>, <<"user:dev@example.com">>}
GcsRoles == {"roles/storage.objectViewer", "roles/storage.objectCreator",
             "roles/storage.admin", "roles/storage.legacyBucketOwner"}
GcsBindings == {[members |-> m, role |-> r] : m \in GcsMembers, r \in GcsRoles}

\* the patterns the code looks for that occur in a role name: none of the role
\* names holds a permission name (storage.objects.list, storage.objects.create)
RolePatterns(role) ==
    CASE role = "roles/storage.objectViewer" -> {"roles/storage.objectViewer"}
      [] role = "roles/storage.objectCreator" -> {"roles/storage.objectCreator"}
      [] role = "roles/storage.admin" -> {"roles/storage.admin"}
      [] OTHER -> {}

\* pattern in role
RoleContains(role, pattern) == pattern \in RolePatterns(role)

\* the loop over policy.bindings: the first binding that returns decides
IamVerdictPublicFirst(bindings) ==
    LET Public(bd) ==
            /\ "allUsers" \in SeqRange(bd.members)
            /\ RolePatterns(bd.role) # {}
        Level(bd) ==
            IF RoleContains(bd.role, "roles/storage.objectViewer") THEN PUBLIC_READ
            ELSE IF RoleContains(bd.role, "roles/storage.objectCreator") THEN PUBLIC_WRITE
            ELSE PUBLIC_READ_WRITE
        public == {i \in 1..Len(bindings) : Public(bindings[i])}
    IN IF public # {}
       THEN Level(bindings[CHOOSE i \in public : \A j \in public : i <= j])
       ELSE IF \E i \in 1..Len(bindings) :
                  /\ "allUsers" \notin SeqRange(bindings[i].members)
                  /\ "allAuthenticatedUsers" \in SeqRange(bindings[i].members)
       THEN AUTHENTICATED_READ
       ELSE None
RECURSIVE IamVerdict(_)
IamVerdict(bindings) ==
    IF bindings = <<>> THEN None
    ELSE LET bd == Head(bindings)
         IN IF "allUsers" \in SeqRange(bd.members)
            THEN IF RoleContains(bd.role, "storage.objects.list")
                      \/ RoleContains(bd.role, "roles/storage.objectViewer")
                 THEN PUBLIC_READ
                 ELSE IF RoleContains(bd.role, "storage.objects.create")
                           \/ RoleContains(bd.role, "roles/storage.objectCreator")
                 THEN PUBLIC_WRITE
                 ELSE IF RoleContains(bd.role, "roles/storage.admin")
                 THEN PUBLIC_READ_WRITE
                 ELSE IamVerdict(Tail(bindings))
            ELSE IF "allAuthenticatedUsers" \in SeqRange(bd.members)
            THEN AUTHENTICATED_READ
            ELSE IamVerdict(Tail(bindings))

\* list(bucket.list_blobs(max_results=1)): no blob, or one
SampleListings == {<<>>, <<"blob">>}

\* if blobs: return PUBLIC_READ
ListVerdict(blobs) == IF blobs # <<>> THEN PUBLIC_READ ELSE None

\* bucket.get_iam_policy().bindings, list(bucket.list_blobs(max_results=1))
IamOutcomes == Returns(SeqsUpTo(GcsBindings, MaxGrants)) \cup Raises(GcsExceptionClasses)
GcsListOutcomes == Returns(SampleListings) \cup Raises(GcsExceptionClasses)

\* ---- Azure
\* properties.get('public_access'): PublicAccess.Container, PublicAccess.Blob,
\* 'off', or None
PublicAccessValues == {"container", "blob", "off", None}

PropsVerdict(public_access) ==
    IF public_access = "container" THEN PUBLIC_READ
    ELSE IF public_access = "blob" THEN PUBLIC_READ
    ELSE IF public_access = None \/ public_access = "off" THEN PRIVATE
    ELSE None

\* get_container_properties, and list_blobs(max_results=1) of an anonymous
\* client; without a client of its own the probe never makes the first call
PropsOutcomes(hasClient) ==
    IF hasClient THEN Returns(PublicAccessValues) \cup Raises(AzureExceptionClasses)
    ELSE Returns({None})
AzureListOutcomes == Returns(SampleListings) \cup Raises(AzureExceptionClasses)

\* ---- the layered check
\* how the call ended: a return from a layer, the final return PRIVATE, or the
\* outer `except Exception` handler (which returns UNKNOWN)
Ret(level, evaluated) == [level |-> level, evaluated |-> evaluated, aborted |-> FALSE]
OuterExcept(evaluated) == [level |-> UNKNOWN, evaluated |-> evaluated, aborted |-> TRUE]

\* which exceptions the try around a native layer catches:
\* S3 `except ClientError`, GCS and Azure `except Exception`
LayerCatchesAll(provider, exc) == TRUE
LayerCatches(provider, exc) ==
    IF provider = "aws_s3" THEN exc = "ClientError" ELSE TRUE

\* the verdict of a native layer on the data its call returned
LayerVerdict(layer, data) ==
    CASE layer = "acl" -> AclVerdict(data)
      [] layer = "policy" -> PolicyVerdict(data)
      [] layer = "block" -> BlockVerdict(data)
      [] layer = "iam" -> IamVerdict(data)
      [] layer = "list" -> ListVerdict(data)
      [] layer = "props" -> PropsVerdict(data)
      [] layer = "anon_list" -> ListVerdict(data)

\* the native layers from position i on, `evaluated` being the layers already run
RECURSIVE NativeLayers(_, _, _, _)
NativeLayers(provider, env, i, evaluated) ==
    LET layers == Layers(provider, env)
    IN IF i > Len(layers) THEN Ret(PRIVATE, evaluated)
       ELSE LET layer == layers[i]
                out == env[layer]
                ev == Append(evaluated, layer)
            IN IF out.exc # NoExc
               THEN IF LayerCatches(provider, out.exc)
                    THEN NativeLayers(provider, env, i + 1, ev)
                    ELSE OuterExcept(ev)
               ELSE LET v == LayerVerdict(layer, out.data)
                    IN IF v # None THEN Ret(v, ev)
                       ELSE NativeLayers(provider, env, i + 1, ev)

\* check_public_access(bucket_name)
CheckPublicAccessFallThrough(provider, env) ==
    IF env.get.error THEN NativeLayers(provider, env, 2, <<"http">>)
    ELSE IF env.get.status = 200 THEN Ret(PUBLIC_READ, <<"http">>)
    ELSE NativeLayers(provider, env, 2, <<"http">>)
CheckPublicAccessNativeFirst(provider, env) ==
    IF env.get.error THEN OuterExcept(<<"http">>)
    ELSE LET native == NativeLayers(provider, env, 2, <<"http">>)
         IN IF native.level \in {PRIVATE, UNKNOWN} /\ env.get.status = 200
            THEN Ret(PUBLIC_READ, native.evaluated)
            ELSE native
CheckPublicAccess(provider, env) ==
    IF env.get.error THEN OuterExcept(<<"http">>)
    ELSE IF env.get.status = 200 THEN Ret(PUBLIC_READ, <<"http">>)
    ELSE NativeLayers(provider, env, 2, <<"http">>)

\* check_public_access(bucket_name) is called on a probe and runs to its return
DoCheckPublicAccess(p, env) ==
    /\ a_provider' = p
    /\ a_env' = env
    /\ a_ret' = CheckPublicAccess(p, env)
    /\ a_pc' = "done"
    /\ a_raised' = FALSE
    /\ AccessFrame

CallCheckPublicAccessS3 ==
    /\ a_pc = "idle"
    /\ \E g \in GetOutcomes, a \in AclOutcomes, po \in PolicyOutcomes, bl \in BlockOutcomes :
        DoCheckPublicAccess("aws_s3",
            [get |-> g, hasClient |-> TRUE, acl |-> a, policy |-> po, block |-> bl])

CallCheckPublicAccessGcs ==
    /\ a_pc = "idle"
    /\ \E g \in GetOutcomes, i \in IamOutcomes, l \in GcsListOutcomes :
        DoCheckPublicAccess("gcp_gcs",
            [get |-> g, hasClient |-> TRUE, iam |-> i, list |-> l])

CallCheckPublicAccessAzure ==
    /\ a_pc = "idle"
    /\ \E g \in GetOutcomes, c \in BOOLEAN, l \in AzureListOutcomes :
        \E pr \in PropsOutcomes(c) :
            DoCheckPublicAccess("azure_blob",
                [get |-> g, hasClient |-> c, props |-> pr, anon_list |-> l])

\* check_public_access on the S3 probe for a bucket whose policy has several
\* statements
CallCheckPublicAccessS3Policy ==
    /\ a_pc = "idle"
    /\ \E g \in GetOutcomes,
          a \in Returns(SeqsUpTo(S3Grants, 1)) \cup Raises(S3ExceptionClasses),
          po \in Returns(SeqsUpTo(S3Statements, MaxStatements))
                    \cup Raises(S3ExceptionClasses),
          bl \in BlockOutcomes :
        DoCheckPublicAccess("aws_s3",
            [get |-> g, hasClient |-> TRUE, acl |-> a, policy |-> po, block |-> bl])

S3AccessNext == CallCheckPublicAccessS3Policy

\* GCPStorageScanner(project_id, credentials_path): the client of the probe is
\* built from the service-account file when a path is given and the file
\* loads, and is an anonymous client otherwise
StorageClient(credentials_path, raises) ==
    IF credentials_path # "" /\ ~raises THEN "service_account" ELSE "anonymous"

\* a GCS bucket as the service sees it: whether allUsers may list it, whether
\* the probe's service account may, and how many objects it holds
GcsBuckets == [anonymous_list : BOOLEAN, account_list : BOOLEAN, objects : 0..1]

\* list(bucket.list_blobs(max_results=1)) through the probe's client: the
\* service answers the identity the client carries
ListBlobsOutcome(client, bucket) ==
    IF bucket.anonymous_list \/ (client = "service_account" /\ bucket.account_list)
    THEN [exc |-> NoExc, data |-> IF bucket.objects > 0 THEN <<"blob">> ELSE <<>>]
    ELSE [exc |-> "Forbidden", data |-> None]

\* check_public_access on a GCS probe built with or without credentials
CallCheckPublicAccessGcsClient ==
    /\ a_pc = "idle"
    /\ \E credentials_path \in {"", "sa.json"}, raises \in BOOLEAN,
          bucket \in GcsBuckets, g \in GetOutcomes,
          i \in Returns(SeqsUpTo(GcsBindings, 1)) \cup Raises(GcsExceptionClasses) :
        LET client == StorageClient(credentials_path, raises)
        IN /\ (g.status = 200) => bucket.anonymous_list
           /\ (i.exc = NoExc) => client = "service_account"
           /\ DoCheckPublicAccess("gcp_gcs",
                [get |-> g, hasClient |-> TRUE, iam |-> i,
                 list |-> ListBlobsOutcome(client, bucket),
                 client |-> client, bucket |-> bucket])

GcsAccessNext == CallCheckPublicAccessGcsClient

AccessNext ==
    \/ CallCheckPublicAccessS3
    \/ CallCheckPublicAccessGcs
    \/ CallCheckPublicAccessAzure

(***************************************************************************)
(* Claims about check_public_access                                        *)
(***************************************************************************)
\* whether a layer's call fails (raises or times out) in environment env
LayerFails(env, layer) ==
    IF layer = "http" THEN env.get.error ELSE env[layer].exc # NoExc

\* a failed layer at position i of the evaluation was only inconclusive: the next
\* layer was evaluated, or, after the last layer, the check ended with PRIVATE
FellThrough(i) ==
    LET layers == Layers(a_provider, a_env)
    IN /\ i < Len(layers) =>
            /\ Len(a_ret.evaluated) > i
            /\ a_ret.evaluated[i + 1] = layers[i + 1]
       /\ i = Len(layers) => (a_ret.level = PRIVATE /\ ~a_ret.aborted)

\* C6: when the anonymous GET returns 200, check_public_access returns
\* public_read at once: no native layer is evaluated, whatever it would report.
C6_Http200IsPublicRead ==
    (a_pc = "done" /\ ~a_env.get.error /\ a_env.get.status = 200) =>
        /\ a_ret.level = PUBLIC_READ
        /\ a_ret.evaluated = <<"http">>
        /\ ~a_ret.aborted

\* the GET returned 200 on an S3 bucket whose ACL grants AllUsers FULL_CONTROL
C6_Witness ==
    /\ a_pc = "done" /\ a_provider = "aws_s3"
    /\ ~a_env.get.error /\ a_env.get.status = 200
    /\ a_env.acl.exc = NoExc
    /\ AclVerdict(a_env.acl.data) = PUBLIC_READ_WRITE
    /\ a_ret.level = PUBLIC_READ

\* C7 as claimed: an exception of any single layer (the HTTP probe included, and
\* of any type) only makes that layer inconclusive; later layers are evaluated.
C7_AnyLayerFailureFallsThrough ==
    a_pc = "done" =>
        /\ ~a_raised
        /\ \A i \in 1..Len(a_ret.evaluated) :
              LayerFails(a_env, a_ret.evaluated[i]) => FellThrough(i)

\* C7 as amended: an exception the layer's own handler catches (S3: ClientError
\* of a native call; GCS and Azure: any exception of a native call) makes only
\* that layer inconclusive and the next layer is evaluated; a failure of the
\* HTTP probe, or another exception of an S3 native call, ends the check at once
\* with unknown. The check never raises.
C7_CaughtLayerFailureFallsThrough ==
    a_pc = "done" =>
        /\ ~a_raised
        /\ \A i \in 1..Len(a_ret.evaluated) :
              LET layer == a_ret.evaluated[i]
              IN LayerFails(a_env, layer) =>
                    IF layer # "http"
                         /\ (a_provider = "aws_s3" => a_env[layer].exc = "ClientError")
                    THEN FellThrough(i)
                    ELSE /\ a_ret.aborted
                         /\ a_ret.level = UNKNOWN
                         /\ Len(a_ret.evaluated) = i

\* the S3 ACL call raised ClientError and the bucket policy, evaluated after
\* it, classified the bucket
C7_Witness ==
    /\ a_pc = "done" /\ a_provider = "aws_s3"
    /\ a_env.acl.exc = "ClientError"
    /\ a_ret.evaluated = <<"http", "acl", "policy">>
    /\ a_ret.level = PUBLIC_READ

\* a layer that completed and found neither a public nor an authenticated grant
CompletedWithoutGrant(env, layer) ==
    /\ ~LayerFails(env, layer)
    /\ IF layer = "http" THEN env.get.status # 200
       ELSE LayerVerdict(layer, env[layer].data) \in {None, PRIVATE, UNKNOWN}

\* C8: when every detection layer fails the result is unknown, and private is
\* returned only when some evaluated layer completed and found no public or
\* authenticated grant.
C8_AllLayersFailedIsUnknown ==
    a_pc = "done" =>
        /\ (\A layer \in SeqRange(Layers(a_provider, a_env)) : LayerFails(a_env, layer))
              => a_ret.level = UNKNOWN
        /\ a_ret.level = PRIVATE =>
              \E layer \in SeqRange(a_ret.evaluated) : CompletedWithoutGrant(a_env, layer)

\* every layer of the S3 check fails, the native ones with ClientError
C8_Witness ==
    /\ a_pc = "done" /\ a_provider = "aws_s3"
    /\ a_env.get.error
    /\ \A layer \in {"acl", "policy", "block"} : a_env[layer].exc = "ClientError"
    /\ a_ret.level = UNKNOWN

(***************************************************************************)
(* list_files (aws_scanner.py, gcp_scanner.py, azure_scanner.py)           *)
(***************************************************************************)
\* the most objects of a small bucket, the most keys one page of a paginated
\* listing holds, the largest max_files argument, the last page that may fail
MaxKeys == 3
PageSize == 2
MaxFilesArg == 3
MaxFailPage == 2

\* object keys
FileNames == {".env", "Backup.SQL", "logo.png"}

\* the contents a bucket may hold
SmallContents == SeqsUpTo(FileNames, MaxKeys)

Min(x, y) == IF x <= y THEN x ELSE y

\* for obj in ...: files.append(key); if len(files) >= max_files: break
\* the keys appended when the loop ends, and whether it ended at the break
TakeLoop(files, items, max_files) ==
    LET stops == {k \in 1..Len(items) : Len(files) + k >= max_files}
        n == IF stops = {} THEN Len(items)
             ELSE CHOOSE k \in stops : \A j \in stops : k <= j
    IN [files |-> files \o SubSeq(items, 1, n), broke |-> stops # {}]

\* S3: one list_objects_v2(Bucket, MaxKeys=max_files) request, which returns at
\* most MaxKeys keys, or raises
S3ListFiles(q) ==
    IF q.failAt = 1 THEN [files |-> <<>>, failed |-> TRUE]
    ELSE LET contents == SubSeq(q.content, 1, Min(q.max_files, Len(q.content)))
         IN [files |-> TakeLoop(<<>>, contents, q.max_files).files, failed |-> FALSE]

\* the result limit of a listing that was given none
NoLimit == -1

\* a lazily paginated listing (GCS list_blobs(max_results=limit), Azure
\* list_blobs()): the first page is always requested, a later one only when the
\* result limit is not reached and the last page named a successor; each request
\* asks for at most limit minus the items already yielded
HasNextPage(q, limit, st) ==
    IF st.page = 0 THEN TRUE
    ELSE IF limit # NoLimit /\ Len(st.files) >= limit THEN FALSE
    ELSE st.avail < Len(q.content)

\* the keys the service puts in the next page; a request for zero results is
\* either read as "no limit given" or answered with an empty page
PageLen(q, limit, st) ==
    LET remaining == Len(q.content) - st.avail
        asked == IF limit = NoLimit THEN q.page_size
                 ELSE IF limit - Len(st.files) > 0 THEN limit - Len(st.files)
                 ELSE IF q.zeroIsUnset THEN q.page_size ELSE 0
    IN Min(Min(q.page_size, remaining), asked)

\* for blob in blobs: files.append(blob.name); if len(files) >= max_files: break
\* the iterator requests the next page when the loop has consumed the last one;
\* an exception of a page request leaves the loop with the keys appended so far
RECURSIVE PagedLoop(_, _, _)
PagedLoop(q, limit, st) ==
    IF HasNextPage(q, limit, st)
    THEN IF st.page + 1 = q.failAt
         THEN [files |-> st.files, failed |-> TRUE]
         ELSE LET n == PageLen(q, limit, st)
                  taken == TakeLoop(st.files, SubSeq(q.content, st.avail + 1, st.avail + n),
                                    q.max_files)
              IN IF taken.broke
                 THEN [files |-> taken.files, failed |-> FALSE]
                 ELSE PagedLoop(q, limit, [files |-> taken.files, avail |-> st.avail + n,
                                           page |-> st.page + 1])
    ELSE [files |-> st.files, failed |-> FALSE]

GcsListFiles(q) == PagedLoop(q, q.max_files, [files |-> <<>>, avail |-> 0, page |-> 0])
AzureListFilesNoBreak(q) == [files |-> q.content, failed |-> FALSE]
AzureListFiles(q) == PagedLoop(q, NoLimit, [files |-> <<>>, avail |-> 0, page |-> 0])

\* list_files(bucket_name, max_files)
ListFiles(provider, q) ==
    CASE provider = "aws_s3" -> S3ListFiles(q)
      [] provider = "gcp_gcs" -> GcsListFiles(q)
      [] OTHER -> AzureListFiles(q)

\* what a listing is asked and what the provider would answer: the bucket's
\* content, the page whose request fails (0: none), how GCS reads a request
\* for zero results, and the most keys the service puts in one page
ListArgs(content, max_files, failAt, zeroIsUnset, page_size) ==
    [content |-> content, max_files |-> max_files, failAt |-> failAt,
     zeroIsUnset |-> zeroIsUnset, page_size |-> page_size]

\* list_files(bucket_name, max_files) is called on a probe and runs to its return
DoListFiles(p, q) ==
    /\ l_provider' = p
    /\ l_args' = q
    /\ l_ret' = ListFiles(p, q)
    /\ l_pc' = "done"
    /\ l_raised' = FALSE
    /\ ListFrame

CallListFilesS3 ==
    /\ l_pc = "idle"
    /\ \E c \in SmallContents, m \in 0..MaxFilesArg, f \in 0..1 :
          DoListFiles("aws_s3", ListArgs(c, m, f, FALSE, PageSize))

CallListFilesGcs ==
    /\ l_pc = "idle"
    /\ \E c \in SmallContents, m \in 0..MaxFilesArg, f \in 0..MaxFailPage, z \in BOOLEAN :
          DoListFiles("gcp_gcs", ListArgs(c, m, f, z, PageSize))

CallListFilesAzure ==
    /\ l_pc = "idle"
    /\ \E c \in SmallContents, m \in 0..MaxFilesArg, f \in 0..MaxFailPage :
          DoListFiles("azure_blob", ListArgs(c, m, f, FALSE, PageSize))

ListNext ==
    \/ CallListFilesS3
    \/ CallListFilesGcs
    \/ CallListFilesAzure

(***************************************************************************)
(* Claims about list_files                                                 *)
(***************************************************************************)
\* C10: for every max_files >= 0 and every bucket content, list_files never
\* raises, returns at most max_files keys, and returns the empty sequence
\* whenever the listing fails at any point.
C10_ListFilesCapAndFailure ==
    l_pc = "done" =>
        /\ ~l_raised
        /\ Len(l_ret.files) <= l_args.max_files
        /\ l_ret.failed => l_ret.files = <<>>

(***************************************************************************)
(* get_bucket_permissions (aws_scanner.py, gcp_scanner.py,                 *)
(* azure_scanner.py)                                                       *)
(***************************************************************************)
\* the battery of read-only calls each probe tries, in order
Battery(provider) ==
    CASE provider = "aws_s3" -> <<"list", "get_acl", "get_policy", "get_location">>
      [] provider = "gcp_gcs" -> <<"list", "get_iam_policy", "get_metadata">>
      [] OTHER -> <<"list", "get_properties", "get_acl">>

\* how one call of the battery ends: it returns, or raises a botocore
\* ClientError, or raises another Exception
CallOutcomes == {"ok", "ClientError", "Exception"}

\* what the provider would answer to each call of the battery
BatteryOutcomes(provider) == [SeqRange(Battery(provider)) -> CallOutcomes]

\* try: test(); permissions.append(name)  except ...: pass   -- once per call of
\* the battery, in order; acc holds the permissions appended and the calls made
RECURSIVE BatteryLoopStopAtFailure(_, _, _)
BatteryLoopStopAtFailure(tests, outcome, acc) ==
    IF tests = <<>> THEN acc
    ELSE LET name == Head(tests)
             made == Append(acc.attempted, name)
         IN IF outcome[name] = "ok"
            THEN BatteryLoopStopAtFailure(Tail(tests), outcome,
                     [permissions |-> Append(acc.permissions, name), attempted |-> made])
            ELSE [permissions |-> acc.permissions, attempted |-> made]
RECURSIVE BatteryLoop(_, _, _)
BatteryLoop(tests, outcome, acc) ==
    IF tests = <<>> THEN acc
    ELSE LET name == Head(tests)
             made == Append(acc.attempted, name)
         IN IF outcome[name] = "ok"
            THEN BatteryLoop(Tail(tests), outcome,
                     [permissions |-> Append(acc.permissions, name), attempted |-> made])
            ELSE BatteryLoop(Tail(tests), outcome,
                     [permissions |-> acc.permissions, attempted |-> made])

\* whether the battery is entered: the Azure probe without a client returns at
\* once, and the GCS and Azure probes leave through the outer except clause
\* when building the bucket or container handle raises
BatteryEntered(provider, env) ==
    /\ provider = "azure_blob" => env.hasClient
    /\ provider # "aws_s3" => ~env.handleRaises

\* get_bucket_permissions(bucket_name): the permissions returned and the calls
\* of the battery that were made
RunBattery(provider, env) ==
    IF BatteryEntered(provider, env)
    THEN BatteryLoop(Battery(provider), env.outcome,
                     [permissions |-> <<>>, attempted |-> <<>>])
    ELSE [permissions |-> <<>>, attempted |-> <<>>]

\* the permissions returned when the handle is built and exactly the calls in
\* succeed return
GetBucketPermissions(provider, hasClient, succeed) ==
    RunBattery(provider,
               [hasClient |-> hasClient, handleRaises |-> FALSE,
                outcome |-> [name \in SeqRange(Battery(provider)) |->
                                IF name \in succeed THEN "ok" ELSE "Exception"]]).permissions

(***************************************************************************)
(* BaseScanner.scan_bucket (base_scanner.py)                               *)
(***************************************************************************)
\* max_files of list_files when scan_bucket calls it
DefaultMaxFiles == 100

\* the most keys one page of a listing holds when scan_bucket lists
ScanPageSize == 40

\* the characters of the strings the sensitive-file heuristic handles
Chars(str) ==
    CASE str = ".env" -> <<".", "e", "n", "v">>
      [] str = "Backup.SQL" -> <<"B", "a", "c", "k", "u", "p", ".", "S", "Q", "L">>
      [] str = "logo.png" -> <<"l", "o", "g", "o", ".", "p", "n", "g">>
      [] str = "config" -> <<"c", "o", "n", "f", "i", "g">>
      [] str = "secret" -> <<"s", "e", "c", "r", "e", "t">>
      [] str = "password" -> <<"p", "a", "s", "s", "w", "o", "r", "d">>
      [] str = "credential" -> <<"c", "r", "e", "d", "e", "n", "t", "i", "a", "l">>
      [] str = "token" -> <<"t", "o", "k", "e", "n">>
      [] str = "key" -> <<"k", "e", "y">>
      [] str = "private" -> <<"p", "r", "i", "v", "a", "t", "e">>
      [] str = ".pem" -> <<".", "p", "e", "m">>
      [] str = ".key" -> <<".", "k", "e", "y">>
      [] str = ".ppk" -> <<".", "p", "p", "k">>
      [] str = "backup" -> <<"b", "a", "c", "k", "u", "p">>
      [] str = ".sql" -> <<".", "s", "q", "l">>
      [] str = ".db" -> <<".", "d", "b">>
      [] str = "database" -> <<"d", "a", "t", "a", "b", "a", "s", "e">>
      [] str = "admin" -> <<"a", "d", "m", "i", "n">>
      [] str = "wp-config" -> <<"w", "p", "-", "c", "o", "n", "f", "i", "g">>
      [] str = ".git" -> <<".", "g", "i", "t">>
      [] str = ".aws" -> <<".", "a", "w", "s">>
      [] str = "id_rsa" -> <<"i", "d", "_", "r", "s", "a">>
      [] str = "auth.txt" -> <<"a", "u", "t", "h", ".", "t", "x", "t">>
      [] str = ".env." -> <<".", "e", "n", "v", ".">>
      [] str = "passwd" -> <<"p", "a", "s", "s", "w", "d">>
      [] str = "creds" -> <<"c", "r", "e", "d", "s">>
      [] str = "auth" -> <<"a", "u", "t", "h">>
      [] str = "apikey" -> <<"a", "p", "i", "k", "e", "y">>
      [] str = "api-key" -> <<"a", "p", "i", "-", "k", "e", "y">>
      [] str = "api_key" -> <<"a", "p", "i", "_", "k", "e", "y">>
      [] str = "privatekey" -> <<"p", "r", "i", "v", "a", "t", "e", "k", "e", "y">>
      [] str = "private-key" -> <<"p", "r", "i", "v", "a", "t", "e", "-", "k", "e", "y">>
      [] str = "private_key" -> <<"p", "r", "i", "v", "a", "t", "e", "_", "k", "e", "y">>
      [] str = "id_dsa" -> <<"i", "d", "_", "d", "s", "a">>
      [] str = ".p12" -> <<".", "p", "1", "2">>
      [] str = ".pfx" -> <<".", "p", "f", "x">>
      [] str = "config.json" -> <<"c", "o", "n", "f", "i", "g", ".", "j", "s", "o", "n">>
      [] str = "config.xml" -> <<"c", "o", "n", "f", "i", "g", ".", "x", "m", "l">>
      [] str = "config.yml" -> <<"c", "o", "n", "f", "i", "g", ".", "y", "m", "l">>
      [] str = "config.yaml" -> <<"c", "o", "n", "f", "i", "g", ".", "y", "a", "m", "l">>
      [] str = "config.ini" -> <<"c", "o", "n", "f", "i", "g", ".", "i", "n", "i">>
      [] str = "config.conf" -> <<"c", "o", "n", "f", "i", "g", ".", "c", "o", "n", "f">>
      [] str = "wp-config.php" -> <<"w", "p", "-", "c", "o", "n", "f", "i", "g", ".", "p", "h", "p">>
      [] str = "settings.py" -> <<"s", "e", "t", "t", "i", "n", "g", "s", ".", "p", "y">>
      [] str = "settings.json" -> <<"s", "e", "t", "t", "i", "n", "g", "s", ".", "j", "s", "o", "n">>
      [] str = "settings.xml" -> <<"s", "e", "t", "t", "i", "n", "g", "s", ".", "x", "m", "l">>
      [] str = ".htaccess" -> <<".", "h", "t", "a", "c", "c", "e", "s", "s">>
      [] str = ".htpasswd" -> <<".", "h", "t", "p", "a", "s", "s", "w", "d">>
      [] str = ".sqlite" -> <<".", "s", "q", "l", "i", "t", "e">>
      [] str = "backup." -> <<"b", "a", "c", "k", "u", "p", ".">>
      [] str = "dump." -> <<"d", "u", "m", "p", ".">>
      [] str = ".mdb" -> <<".", "m", "d", "b">>
      [] str = ".accdb" -> <<".", "a", "c", "c", "d", "b">>
      [] str = ".git/" -> <<".", "g", "i", "t", "/">>
      [] str = ".svn/" -> <<".", "s", "v", "n", "/">>
      [] str = ".hg/" -> <<".", "h", "g", "/">>
      [] str = ".env.local" -> <<".", "e", "n", "v", ".", "l", "o", "c", "a", "l">>
      [] str = ".env.production" -> <<".", "e", "n", "v", ".", "p", "r", "o", "d", "u", "c", "t", "i", "o", "n">>
      [] str = ".aws/" -> <<".", "a", "w", "s", "/">>
      [] str = ".azure/" -> <<".", "a", "z", "u", "r", "e", "/">>
      [] str = ".gcp/" -> <<".", "g", "c", "p", "/">>
      [] str = "credentials.json" -> <<"c", "r", "e", "d", "e", "n", "t", "i", "a", "l", "s", ".", "j", "s", "o", "n">>
      [] str = "serviceaccount" -> <<"s", "e", "r", "v", "i", "c", "e", "a", "c", "c", "o", "u", "n", "t">>
      [] str = "service-account" -> <<"s", "e", "r", "v", "i", "c", "e", "-", "a", "c", "c", "o", "u", "n", "t">>
      [] str = "service_account" -> <<"s", "e", "r", "v", "i", "c", "e", "_", "a", "c", "c", "o", "u", "n", "t">>
      [] str = ".log" -> <<".", "l", "o", "g">>
      [] str = "access_log" -> <<"a", "c", "c", "e", "s", "s", "_", "l", "o", "g">>
      [] str = "error_log" -> <<"e", "r", "r", "o", "r", "_", "l", "o", "g">>
      [] str = "debug." -> <<"d", "e", "b", "u", "g", ".">>
      [] str = "trace." -> <<"t", "r", "a", "c", "e", ".">>
      [] str = "Server.PEM" -> <<"S", "e", "r", "v", "e", "r", ".", "P", "E", "M">>
      [] str = ".aws/credentials" -> <<".", "a", "w", "s", "/", "c", "r", "e", "d", "e", "n", "t", "i", "a", "l", "s">>
      [] str = "env.txt" -> <<"e", "n", "v", ".", "t", "x", "t">>
      [] str = "env" -> <<"e", "n", "v">>
      [] str = "no_extension" -> <<"n", "o", "_", "e", "x", "t", "e", "n", "s", "i", "o", "n">>

UpperCase == <<"A", "B", "C", "D", "E", "F", "G", "H", "I", "J", "K", "L", "M",
               "N", "O", "P", "Q", "R", "S", "T", "U", "V", "W", "X", "Y", "Z">>
LowerCase == <<"a", "b", "c", "d", "e", "f", "g", "h", "i", "j", "k", "l", "m",
               "n", "o", "p", "q", "r", "s", "t", "u", "v", "w", "x", "y", "z">>

\* file.lower()
LowerChar(ch) ==
    IF \E i \in 1..Len(UpperCase) : UpperCase[i] = ch
    THEN LowerCase[CHOOSE i \in 1..Len(UpperCase) : UpperCase[i] = ch]
    ELSE ch
Lower(chars) == [i \in 1..Len(chars) |-> LowerChar(chars[i])]

\* pattern in file_lower
Contains(hay, needle) ==
    \E i \in 0..(Len(hay) - Len(needle)) : SubSeq(hay, i + 1, i + Len(needle)) = needle

sensitive_patterns ==
    <<".env", "config", "secret", "password", "credential",
      "token", "key", "private", ".pem", ".key", ".ppk",
      "backup", ".sql", ".db", "database", "admin",
      "wp-config", ".git", ".aws", "id_rsa">>

\* any(pattern in file_lower for pattern in sensitive_patterns)
IsSensitive(file) ==
    \E i \in 1..Len(sensitive_patterns) :
        Contains(Lower(Chars(file)), Chars(sensitive_patterns[i]))

\* _detect_sensitive_files(files)
DetectSensitiveFilesCaseSensitive(files) ==
    SelectSeq(files, LAMBDA file :
        \E i \in 1..Len(sensitive_patterns) :
            Contains(Chars(file), Chars(sensitive_patterns[i])))
DetectSensitiveFiles(files) == SelectSeq(files, IsSensitive)

\* the buckets a scan meets: an empty one, a small one, and ones that hold
\* about as many objects as scan_bucket lists at most
FileNameCycle == <<".env", "logo.png", "Backup.SQL">>
LargeContent(n) == [i \in 1..n |-> FileNameCycle[((i - 1) % Len(FileNameCycle)) + 1]]
ScanContents ==
    {<<>>, FileNameCycle, <<"env.txt", "Backup.SQL">>} \cup
    {LargeContent(n) : n \in {DefaultMaxFiles - 1, DefaultMaxFiles, DefaultMaxFiles + 1}}

\* an optional field: None, or a value
Nothing == <<>>
Some(value) == <<value>>

\* the access levels each probe's check_public_access can return
ReturnableLevels(provider) ==
    IF provider = "azure_blob" THEN {PUBLIC_READ, PRIVATE, UNKNOWN} ELSE AccessLevels

\* str(e) of an exception a primitive operation raises
ErrorMessages == {"connection reset by peer", ""}

\* the storage account the Azure probe was built for
AccountName == "acct"

\* _get_bucket_url(bucket_name), as the parts the f-string joins
GetBucketUrl(provider, bucket) ==
    CASE provider = "aws_s3" -> <<"https://", bucket, ".s3.amazonaws.com">>
      [] provider = "gcp_gcs" -> <<"https://storage.googleapis.com/", bucket>>
      [] OTHER -> <<"https://", AccountName, ".blob.core.windows.net/", bucket>>

\* is_accessible = access_level not in [PRIVATE, UNKNOWN]
IsAccessibleNotPrivate(level) == level # PRIVATE
IsAccessible(level) == level \notin {PRIVATE, UNKNOWN}

\* the result of a bucket that does not exist, and of a scan that raised
NotFoundResult(provider, bucket, error) ==
    [provider |-> provider, bucket_name |-> bucket, exists |-> FALSE,
     is_accessible |-> FALSE, access_level |-> UNKNOWN, permissions |-> <<>>,
     url |-> GetBucketUrl(provider, bucket), files_found |-> Nothing,
     sensitive_files |-> Nothing, error |-> error]

\* except Exception as e: ... error=str(e)
ErrorResultFixedMessage(provider, bucket, message) ==
    NotFoundResult(provider, bucket, "Bucket does not exist")
ErrorResult(provider, bucket, message) == NotFoundResult(provider, bucket, message)

\* the result of a completed scan
ScanResult(provider, bucket, local) ==
    [provider |-> provider, bucket_name |-> bucket, exists |-> TRUE,
     is_accessible |-> local.is_accessible, access_level |-> local.access_level,
     permissions |-> local.permissions, url |-> GetBucketUrl(provider, bucket),
     files_found |-> local.files_found, sensitive_files |-> local.sensitive_files,
     error |-> None]

NoLocals ==
    [exists |-> Nothing, access_level |-> None, is_accessible |-> None,
     permissions |-> None, files_found |-> Nothing, sensitive_files |-> Nothing]

\* if not exists: return BucketScanResult(exists=False, ...); otherwise the
\* scan goes on to check_public_access
AfterExistsGoesOn(exists) == "access"
AfterExists(exists) == IF exists THEN "access" ELSE "done"

NoException == [step |-> None, message |-> None]

\* a primitive operation raises: control passes to the except clause
Raise(step, message) ==
    /\ s_exc' = [step |-> step, message |-> message]
    /\ s_pc' = "except"

\* scan_bucket(bucket_name) is called on a probe
CallProbeScanBucket ==
    /\ s_pc = "idle"
    /\ \E p \in ProviderSet, b \in BucketNames :
          /\ s_provider' = p
          /\ s_bucket' = b
    /\ s_pc' = "exists"
    /\ UNCHANGED <<s_local, s_calls, s_exc, s_result, s_raised>>
    /\ ScanFrame

\* exists = await self.check_bucket_exists(bucket_name)
StepCheckExists ==
    /\ s_pc = "exists"
    /\ s_calls' = Append(s_calls, "check_bucket_exists")
    /\ \/ /\ \E exists \in BOOLEAN :
                /\ s_local' = [s_local EXCEPT !.exists = Some(exists)]
                /\ s_pc' = AfterExists(exists)
                /\ s_result' = IF exists THEN s_result
                               ELSE NotFoundResult(s_provider, s_bucket,
                                                   "Bucket does not exist")
          /\ UNCHANGED s_exc
       \/ /\ \E m \in ErrorMessages : Raise("check_bucket_exists", m)
          /\ UNCHANGED <<s_result, s_local>>
    /\ UNCHANGED <<s_provider, s_bucket, s_raised>>
    /\ ScanFrame

\* access_level = await self.check_public_access(bucket_name)
StepCheckAccess ==
    /\ s_pc = "access"
    /\ s_calls' = Append(s_calls, "check_public_access")
    /\ \/ /\ \E level \in ReturnableLevels(s_provider) :
                s_local' = [s_local EXCEPT !.access_level = level,
                                           !.is_accessible = IsAccessible(level)]
          /\ s_pc' = "permissions"
          /\ UNCHANGED s_exc
       \/ /\ \E m \in ErrorMessages : Raise("check_public_access", m)
          /\ UNCHANGED s_local
    /\ UNCHANGED <<s_provider, s_bucket, s_result, s_raised>>
    /\ ScanFrame

\* permissions = await self.get_bucket_permissions(bucket_name)
StepGetPermissions ==
    /\ s_pc = "permissions"
    /\ s_calls' = Append(s_calls, "get_bucket_permissions")
    /\ \/ /\ \E c \in BOOLEAN, ok \in SUBSET SeqRange(Battery(s_provider)) :
                /\ s_provider # "azure_blob" => c
                /\ s_local' = [s_local EXCEPT
                                  !.permissions = GetBucketPermissions(s_provider, c, ok)]
          /\ s_pc' = "list"
          /\ UNCHANGED s_exc
       \/ /\ \E m \in ErrorMessages : Raise("get_bucket_permissions", m)
          /\ UNCHANGED s_local
    /\ UNCHANGED <<s_provider, s_bucket, s_result, s_raised>>
    /\ ScanFrame

\* if is_accessible: files_found = await self.list_files(bucket_name);
\*                   sensitive_files = self._detect_sensitive_files(files_found)
StepListFiles ==
    /\ s_pc = "list"
    /\ IF s_local.is_accessible
       THEN /\ s_calls' = Append(s_calls, "list_files")
            /\ \/ /\ \E c \in ScanContents, f \in 0..MaxFailPage :
                        LET files == ListFiles(s_provider,
                                               ListArgs(c, DefaultMaxFiles, f, FALSE,
                                                        ScanPageSize)).files
                        IN s_local' = [s_local EXCEPT
                                          !.files_found = Some(files),
                                          !.sensitive_files =
                                              Some(DetectSensitiveFiles(files))]
                  /\ s_pc' = "build"
                  /\ UNCHANGED s_exc
               \/ /\ \E m \in ErrorMessages : Raise("list_files", m)
                  /\ UNCHANGED s_local
       ELSE /\ s_pc' = "build"
            /\ UNCHANGED <<s_local, s_calls, s_exc>>
    /\ UNCHANGED <<s_provider, s_bucket, s_result, s_raised>>
    /\ ScanFrame

\* result = BucketScanResult(...); return result
StepBuildResult ==
    /\ s_pc = "build"
    /\ s_result' = ScanResult(s_provider, s_bucket, s_local)
    /\ s_pc' = "done"
    /\ UNCHANGED <<s_provider, s_bucket, s_local, s_calls, s_exc, s_raised>>
    /\ ScanFrame

\* except Exception as e: return BucketScanResult(exists=False, ..., error=str(e))
HandleException ==
    /\ s_pc = "except"
    /\ s_result' = ErrorResult(s_provider, s_bucket, s_exc.message)
    /\ s_pc' = "done"
    /\ UNCHANGED <<s_provider, s_bucket, s_local, s_calls, s_exc, s_raised>>
    /\ ScanFrame

ScanNext ==
    \/ CallProbeScanBucket
    \/ StepCheckExists
    \/ StepCheckAccess
    \/ StepGetPermissions
    \/ StepListFiles
    \/ StepBuildResult
    \/ HandleException

(***************************************************************************)
(* Claims about BaseScanner.scan_bucket                                    *)
(***************************************************************************)
\* C2: for every probe and every bucket name, scan_bucket never raises, and
\* when check_bucket_exists, check_public_access, get_bucket_permissions or
\* list_files raised, it returns a result with exists = false, is_accessible =
\* false, access_level = unknown, empty permissions, no files, and error equal
\* to the exception's message.
C2_ScanBucketNeverRaises ==
    /\ ~s_raised
    /\ (s_pc = "done" /\ s_exc.step # None) =>
          /\ s_result.provider = s_provider
          /\ s_result.bucket_name = s_bucket
          /\ ~s_result.exists
          /\ ~s_result.is_accessible
          /\ s_result.access_level = UNKNOWN
          /\ s_result.permissions = <<>>
          /\ s_result.files_found = Nothing
          /\ s_result.sensitive_files = Nothing
          /\ s_result.error = s_exc.message

\* list_files raised after the bucket was classified public and its
\* permissions were collected, and the scan returned the error result
C2_Witness ==
    /\ s_pc = "done"
    /\ s_exc.step = "list_files"
    /\ s_exc.message = "connection reset by peer"
    /\ s_local.access_level = PUBLIC_READ
    /\ s_local.permissions # <<>>
    /\ s_result.error = "connection reset by peer"
    /\ ~s_result.exists

\* C4: every result scan_bucket returns is well-formed: is_accessible is true
\* exactly when access_level is neither private nor unknown, and when exists is
\* false then is_accessible is false, access_level is unknown, permissions is
\* empty and files_found and sensitive_files are absent.
C4_ResultWellFormed ==
    s_pc = "done" =>
        /\ s_result.is_accessible <=> s_result.access_level \notin {PRIVATE, UNKNOWN}
        /\ ~s_result.exists =>
              /\ ~s_result.is_accessible
              /\ s_result.access_level = UNKNOWN
              /\ s_result.permissions = <<>>
              /\ s_result.files_found = Nothing
              /\ s_result.sensitive_files = Nothing

\* a bucket that exists and whose access check came back unknown is reported
\* as not accessible
C4_Witness ==
    /\ s_pc = "done"
    /\ s_result.exists
    /\ s_result.access_level = UNKNOWN
    /\ ~s_result.is_accessible
    /\ s_result.permissions # <<>>

\* how many elements of sub a left-to-right scan of seq matches in order;
\* m[<<lo, hi, k>>] is the count after seq[lo..hi] when k were matched before
Matched(sub, seq) ==
    LET n == Len(seq)
        m[a \in (1..(n + 1)) \X (0..n) \X (0..Len(sub))] ==
            LET lo == a[1]
                hi == a[2]
                k == a[3]
                mid == (lo + hi) \div 2
            IN IF lo > hi THEN k
               ELSE IF lo = hi
               THEN IF k < Len(sub) /\ sub[k + 1] = seq[lo] THEN k + 1 ELSE k
               ELSE m[<<mid + 1, hi, m[<<lo, mid, k>>]>>]
    IN m[<<1, n, 0>>]

\* sub is obtained from seq by deleting elements
IsSubSequence(sub, seq) == Matched(sub, seq) = Len(sub)

\* C5: in every result scan_bucket returns, files_found and sensitive_files
\* are present only when is_accessible is true, files_found has at most 100
\* entries, and sensitive_files is a sub-sequence of files_found.
C5_FilesOnlyWhenAccessible ==
    s_pc = "done" =>
        /\ ~s_result.is_accessible =>
              /\ s_result.files_found = Nothing
              /\ s_result.sensitive_files = Nothing
        /\ s_result.files_found # Nothing =>
              /\ Len(s_result.files_found[1]) <= 100
              /\ s_result.sensitive_files # Nothing
              /\ IsSubSequence(s_result.sensitive_files[1], s_result.files_found[1])

\* a public Azure container with more than 100 blobs: 100 are listed, and some
\* but not all of them are sensitive
C5_Witness ==
    /\ s_pc = "done"
    /\ s_provider = "azure_blob"
    /\ s_result.is_accessible
    /\ s_result.files_found # Nothing
    /\ Len(s_result.files_found[1]) = 100
    /\ s_result.sensitive_files[1] # <<>>
    /\ Len(s_result.sensitive_files[1]) < 100

(***************************************************************************)
(* get_bucket_permissions as an operation of one probe                     *)
(***************************************************************************)
\* get_bucket_permissions(bucket_name) is called on a probe and runs to its return
DoGetBucketPermissions(p, env) ==
    /\ p_provider' = p
    /\ p_env' = env
    /\ p_ret' = RunBattery(p, env)
    /\ p_pc' = "done"
    /\ p_raised' = FALSE
    /\ PermFrame

CallGetBucketPermissionsS3 ==
    /\ p_pc = "idle"
    /\ \E o \in BatteryOutcomes("aws_s3") :
          DoGetBucketPermissions("aws_s3",
              [hasClient |-> TRUE, handleRaises |-> FALSE, outcome |-> o])

CallGetBucketPermissionsGcs ==
    /\ p_pc = "idle"
    /\ \E o \in BatteryOutcomes("gcp_gcs"), h \in BOOLEAN :
          DoGetBucketPermissions("gcp_gcs",
              [hasClient |-> TRUE, handleRaises |-> h, outcome |-> o])

CallGetBucketPermissionsAzure ==
    /\ p_pc = "idle"
    /\ \E o \in BatteryOutcomes("azure_blob"), c \in BOOLEAN, h \in BOOLEAN :
          DoGetBucketPermissions("azure_blob",
              [hasClient |-> c, handleRaises |-> h, outcome |-> o])

PermNext ==
    \/ CallGetBucketPermissionsS3
    \/ CallGetBucketPermissionsGcs
    \/ CallGetBucketPermissionsAzure

(***************************************************************************)
(* Claims about get_bucket_permissions                                     *)
(***************************************************************************)
\* the names of the calls made that returned, in the order they were made
Succeeded == SelectSeq(p_ret.attempted, LAMBDA name : p_env.outcome[name] = "ok")

NoDuplicates(seq) == \A i, j \in 1..Len(seq) : seq[i] = seq[j] => i = j

\* C11 (as stated): get_bucket_permissions never raises, returns exactly the
\* names of the battery calls that succeeded, in battery order and without
\* duplicates, and every call of the battery is attempted.
C11_EveryProbeAttempted ==
    p_pc = "done" =>
        /\ ~p_raised
        /\ p_ret.permissions = Succeeded
        /\ NoDuplicates(p_ret.permissions)
        /\ p_ret.attempted = Battery(p_provider)

\* C11 (amended): get_bucket_permissions never raises and returns exactly the
\* names of the battery calls that succeeded, in battery order and without
\* duplicates; once the battery is entered every call of it is attempted even
\* after earlier ones failed; the Azure probe without a client, and a GCS or
\* Azure probe whose handle cannot be built, attempt no call and return the
\* empty sequence.
C11_BatteryRunsToEndOnceEntered ==
    p_pc = "done" =>
        /\ ~p_raised
        /\ p_ret.permissions = Succeeded
        /\ NoDuplicates(p_ret.permissions)
        /\ IF BatteryEntered(p_provider, p_env)
           THEN p_ret.attempted = Battery(p_provider)
           ELSE p_ret.attempted = <<>> /\ p_ret.permissions = <<>>

\* the first S3 call fails with a ClientError, the second with another
\* exception, and the last two are still made and reported
C11_Witness ==
    /\ p_pc = "done"
    /\ p_provider = "aws_s3"
    /\ p_env.outcome["list"] = "ClientError"
    /\ p_env.outcome["get_acl"] = "Exception"
    /\ p_ret.attempted = Battery("aws_s3")
    /\ p_ret.permissions = <<"get_policy", "get_location">>

(***************************************************************************)
(* ContentAnalyzer (workers/content_analyzer.py)                           *)
(***************************************************************************)
\* the longest arbitrary file list analysed
MaxListLen == 2

\* object keys handed to the analyzer
AnalyzerFileNames == {".env", "auth.txt", "Backup.SQL", "logo.png", ".aws/credentials"}

\* a list of n keys: env copies of ".env", then auth copies of "auth.txt",
\* then "logo.png"
MixedList(n, env, auth) ==
    [i \in 1..n |-> IF i <= env THEN ".env"
                    ELSE IF i <= env + auth THEN "auth.txt" ELSE "logo.png"]

\* lists around the size tiers of the risk score, with few and many sensitive keys
MixedLists ==
    {MixedList(10, 0, 1), MixedList(11, 0, 1), MixedList(11, 1, 0),
     MixedList(50, 0, 28), MixedList(50, 0, 29), MixedList(50, 15, 13),
     MixedList(50, 20, 30), MixedList(100, 0, 1), MixedList(101, 0, 1),
     MixedList(1000, 0, 1), MixedList(1001, 0, 1)}

\* the file lists analyze is called with
AnalyzerInputs == SeqsUpTo(AnalyzerFileNames, MaxListLen) \cup MixedLists

\* a regular expression of SENSITIVE_PATTERNS: every one of them is a choice of
\* literal texts, searched anywhere or anchored by $
Search(alts) == [atEnd |-> FALSE, alts |-> alts]
SearchAtEnd(alts) == [atEnd |-> TRUE, alts |-> alts]

SENSITIVE_PATTERNS ==
    <<[category |-> "credentials",
       patterns |-> <<SearchAtEnd(<<".env">>), Search(<<".env.">>),
                      Search(<<"secret">>), Search(<<"password">>), Search(<<"passwd">>),
                      Search(<<"credential">>), Search(<<"creds">>),
                      Search(<<"auth">>), Search(<<"token">>),
                      Search(<<"apikey", "api-key", "api_key">>)>>],
      [category |-> "private_keys",
       patterns |-> <<SearchAtEnd(<<".pem">>), SearchAtEnd(<<".key">>),
                      SearchAtEnd(<<".ppk">>),
                      Search(<<"privatekey", "private-key", "private_key">>),
                      Search(<<"id_rsa">>), Search(<<"id_dsa">>),
                      SearchAtEnd(<<".p12">>), SearchAtEnd(<<".pfx">>)>>],
      [category |-> "config_files",
       patterns |-> <<SearchAtEnd(<<"config.json", "config.xml", "config.yml",
                                    "config.yaml", "config.ini", "config.conf">>),
                      SearchAtEnd(<<"wp-config.php">>),
                      SearchAtEnd(<<"settings.py", "settings.json", "settings.xml">>),
                      SearchAtEnd(<<".htaccess">>), SearchAtEnd(<<".htpasswd">>)>>],
      [category |-> "database",
       patterns |-> <<SearchAtEnd(<<".sql">>), SearchAtEnd(<<".db">>),
                      Search(<<".sqlite">>), Search(<<"database">>),
                      Search(<<"backup.">>), Search(<<"dump.">>),
                      SearchAtEnd(<<".mdb">>), SearchAtEnd(<<".accdb">>)>>],
      [category |-> "source_code",
       patterns |-> <<Search(<<".git/">>), Search(<<".svn/">>), Search(<<".hg/">>),
                      Search(<<".env.local">>), Search(<<".env.production">>)>>],
      [category |-> "cloud_config",
       patterns |-> <<Search(<<".aws/">>), Search(<<".azure/">>), Search(<<".gcp/">>),
                      Search(<<"credentials.json">>),
                      Search(<<"serviceaccount", "service-account", "service_account">>)>>],
      [category |-> "logs",
       patterns |-> <<SearchAtEnd(<<".log">>), Search(<<"access_log">>),
                      Search(<<"error_log">>), Search(<<"debug.">>),
                      Search(<<"trace.">>)>>]>>

EndsWith(hay, needle) ==
    /\ Len(needle) <= Len(hay)
    /\ SubSeq(hay, Len(hay) - Len(needle) + 1, Len(hay)) = needle

\* $ matches at the end of the text and before a newline that ends it
MatchesAtEnd(hay, needle) ==
    \/ EndsWith(hay, needle)
    \/ /\ hay # <<>>
       /\ hay[Len(hay)] = "\n"
       /\ EndsWith(SubSeq(hay, 1, Len(hay) - 1), needle)

\* re.search(pattern, file_lower)
ReSearch(pattern, chars) ==
    \E i \in 1..Len(pattern.alts) :
        IF pattern.atEnd THEN MatchesAtEnd(chars, Chars(pattern.alts[i]))
        ELSE Contains(chars, Chars(pattern.alts[i]))

\* for pattern in patterns: if re.search(pattern, file_lower): ... break
MatchesCategory(chars, k) ==
    \E j \in 1..Len(SENSITIVE_PATTERNS[k].patterns) :
        ReSearch(SENSITIVE_PATTERNS[k].patterns[j], chars)

\* for each key, the categories one of whose patterns its lowercase name matches
CategoryMatches ==
    [name \in AnalyzerFileNames |->
        [k \in 1..Len(SENSITIVE_PATTERNS) |-> MatchesCategory(Lower(Chars(name)), k)]]

\* file in sensitive
InSeq(x, seq) == \E i \in 1..Len(seq) : seq[i] = x

\* for category, patterns in SENSITIVE_PATTERNS.items():
\*     for pattern in patterns: if re.search(...): sensitive.append(file); break
\*     if file in sensitive: break
CategoriesLoop(file, sensitive) ==
    LET last == Len(SENSITIVE_PATTERNS)
        loop[a \in (1..(last + 1)) \X Seq(AnalyzerFileNames)] ==
            IF a[1] > last THEN a[2]
            ELSE LET appended == IF CategoryMatches[file][a[1]]
                                 THEN Append(a[2], file) ELSE a[2]
                 IN IF InSeq(file, appended) THEN appended
                    ELSE loop[<<a[1] + 1, appended>>]
    IN loop[<<1, sensitive>>]

\* ContentAnalyzer._detect_sensitive_files(files): the loop over files, run on
\* files[lo..hi] in two halves
AnalyzerDetectSensitiveFiles(files) ==
    LET n == Len(files)
        run[a \in (1..(n + 1)) \X (0..n) \X Seq(AnalyzerFileNames)] ==
            LET lo == a[1]
                hi == a[2]
                mid == (lo + hi) \div 2
            IN IF lo > hi THEN a[3]
               ELSE IF lo = hi THEN CategoriesLoop(files[lo], a[3])
               ELSE run[<<mid + 1, hi, run[<<lo, mid, a[3]>>]>>]
    IN run[<<1, n, <<>>>>]

\* ---- the float arithmetic of  ratio = len(sensitive_files) / len(files);
\* ---- int(ratio * 50)
\* a positive double is (lead + 0.digits) * 2^-shift: lead is the integer part
\* and digits are the 52 fraction bits as four digits of 13 bits
LimbBase == 2^13

\* carries of the digit values into the next higher digit and into lead
Propagate(lead, v) ==
    LET s4 == v[4]
        s3 == v[3] + (s4 \div LimbBase)
        s2 == v[2] + (s3 \div LimbBase)
        s1 == v[1] + (s2 \div LimbBase)
    IN [lead |-> lead + (s1 \div LimbBase),
        digits |-> <<s1 % LimbBase, s2 % LimbBase, s3 % LimbBase, s4 % LimbBase>>]

\* s / n of two ints, 1 <= s <= n: the quotient rounded to the nearest double,
\* ties to even
TrueDivide(s, n) ==
    LET shift == CHOOSE a \in 0..12 : s * 2^a >= n /\ (a = 0 \/ s * 2^(a - 1) < n)
        r0 == s * 2^shift - n
        d1 == (r0 * LimbBase) \div n
        r1 == (r0 * LimbBase) % n
        d2 == (r1 * LimbBase) \div n
        r2 == (r1 * LimbBase) % n
        d3 == (r2 * LimbBase) \div n
        r3 == (r2 * LimbBase) % n
        d4 == (r3 * LimbBase) \div n
        r4 == (r3 * LimbBase) % n
        up == IF 2 * r4 > n \/ (2 * r4 = n /\ d4 % 2 = 1) THEN 1 ELSE 0
        q == Propagate(1, <<d1, d2, d3, d4 + up>>)
    IN [lead |-> q.lead, digits |-> q.digits, shift |-> shift]

\* x * 50: the exact product rounded to 53 significant bits, ties to even
TimesFifty(x) ==
    LET exact == Propagate(50 * x.lead, [i \in 1..4 |-> 50 * x.digits[i]])
        drop == IF exact.lead >= 64 THEN 2^6 ELSE 2^5
        low == exact.digits[4] % drop
        keep == exact.digits[4] \div drop
        up == IF 2 * low > drop \/ (2 * low = drop /\ keep % 2 = 1) THEN 1 ELSE 0
        p == Propagate(exact.lead,
                       [i \in 1..4 |-> IF i = 4 THEN (keep + up) * drop
                                       ELSE exact.digits[i]])
    IN [lead |-> p.lead, digits |-> p.digits, shift |-> x.shift]

\* int(x): truncation
IntOf(x) == x.lead \div (2^x.shift)

\* ratio = len(sensitive_files) / len(files); score += int(ratio * 50)
RatioPointsOfRest(s, n) == IntOf(TimesFifty(TrueDivide(n - s + 1, n)))
RatioPoints(s, n) == IntOf(TimesFifty(TrueDivide(s, n)))

high_risk_patterns ==
    <<"password", "secret", ".env", "credential", "private", ".key", ".pem", "id_rsa">>

\* any(pattern in file_lower for pattern in high_risk_patterns), for each key
IsHighRisk ==
    [name \in AnalyzerFileNames |->
        \E i \in 1..Len(high_risk_patterns) :
            Contains(Lower(Chars(name)), Chars(high_risk_patterns[i]))]

\* the sensitive files that add the high-risk bonus
HighRiskCount(sensitive_files) ==
    Cardinality({i \in 1..Len(sensitive_files) : IsHighRisk[sensitive_files[i]]})

\* Score based on number of files
SizeTier(n) ==
    IF n > 1000 THEN 20 ELSE IF n > 100 THEN 15 ELSE IF n > 10 THEN 10 ELSE 5

\* ContentAnalyzer._calculate_risk_score(files, sensitive_files)
CalculateRiskScore(files, sensitive_files) ==
    IF files = <<>> THEN 0
    ELSE LET score == 10 + SizeTier(Len(files))
                      + (IF sensitive_files # <<>>
                         THEN RatioPoints(Len(sensitive_files), Len(files)) ELSE 0)
                      + 5 * HighRiskCount(sensitive_files)
         IN Min(score, 100)

\* ContentAnalyzer.analyze(bucket_name, files)
\* _get_category_severity(category)
GetCategorySeverity(category) ==
    IF category \in {"credentials", "private_keys", "cloud_config"} THEN "critical"
    ELSE IF category \in {"database", "config_files"} THEN "high"
    ELSE IF category \in {"source_code", "logs"} THEN "medium"
    ELSE "low"

\* categorized[category] after the grouping loop of _generate_findings: every
\* sensitive file, in order, is appended to each category one of whose
\* patterns matches it (the break leaves the loop over patterns only)
Categorized(sensitive_files, k) ==
    SelectSeq(sensitive_files, LAMBDA file : CategoryMatches[file][k])

\* the keys of categorized in dict order: a category comes before another if
\* its first file comes first, or, for the same file, if it is the earlier
\* category of SENSITIVE_PATTERNS
CategorizedKeys(sensitive_files) ==
    LET all == 1..Len(SENSITIVE_PATTERNS)
        keys == {k \in all : Categorized(sensitive_files, k) # <<>>}
        first(k) == CHOOSE i \in 1..Len(sensitive_files) :
                        /\ CategoryMatches[sensitive_files[i]][k]
                        /\ \A j \in 1..(i - 1) : ~CategoryMatches[sensitive_files[j]][k]
        before(a, b) == first(a) < first(b) \/ (first(a) = first(b) /\ a < b)
        rank(k) == Cardinality({a \in keys : before(a, k)}) + 1
    IN [r \in 1..Cardinality(keys) |-> CHOOSE k \in keys : rank(k) = r]

\* _generate_findings(files, sensitive_files)
GenerateFindings(sensitive_files) ==
    LET keys == CategorizedKeys(sensitive_files)
    IN [r \in 1..Len(keys) |->
          LET files_list == Categorized(sensitive_files, keys[r])
              category == SENSITIVE_PATTERNS[keys[r]].category
          IN [category |-> category,
              severity |-> GetCategorySeverity(category),
              count |-> Len(files_list),
              files |-> SubSeq(files_list, 1, Min(10, Len(files_list)))]]

\* file.rsplit('.', 1)[-1].lower() if '.' in file else 'no_extension'
Extension(file) ==
    LET chars == Chars(file)
        dots == {i \in 1..Len(chars) : chars[i] = "."}
    IN IF dots = {} THEN Chars("no_extension")
       ELSE LET last == CHOOSE i \in dots : \A j \in dots : j <= i
            IN Lower(SubSeq(chars, last + 1, Len(chars)))

\* the extension of each name the analyzer handles
ExtensionOf == [file \in AnalyzerFileNames |-> Extension(file)]

\* _analyze_file_types(files): the dict from extension to count
AnalyzeFileTypes(files) ==
    LET present == {file \in AnalyzerFileNames : InSeq(file, files)}
    IN [ext \in {ExtensionOf[file] : file \in present} |->
          Cardinality({i \in 1..Len(files) : ExtensionOf[files[i]] = ext})]

Analyze(files) ==
    IF files = <<>>
    THEN [total_files |-> 0, sensitive_files |-> <<>>, file_types |-> <<>>,
          risk_score |-> 0, findings |-> <<>>]
    ELSE LET sensitive_files == AnalyzerDetectSensitiveFiles(files)
         IN [total_files |-> Len(files), sensitive_files |-> sensitive_files,
             file_types |-> AnalyzeFileTypes(files),
             risk_score |-> CalculateRiskScore(files, sensitive_files),
             findings |-> GenerateFindings(sensitive_files)]

\* analyze(bucket_name, files) for each of the file lists it is called with
AnalysisOf == [files \in AnalyzerInputs |-> Analyze(files)]

\* no call of analyze yet
NoAnalysis == [files |-> <<>>, result |-> <<>>]

\* analyze(bucket_name, files) is called; the analyzer keeps no state, the last
\* two calls are remembered to compare them
CallAnalyze ==
    /\ \E files \in AnalyzerInputs :
          c_last' = [files |-> files, result |-> <<AnalysisOf[files]>>]
    /\ c_prev' = c_last
    /\ AnalyzerFrame

AnalyzerNext == CallAnalyze

(***************************************************************************)
(* Claims about ContentAnalyzer                                            *)
(***************************************************************************)
\* the result of the last call and of the call before it
LastResult == c_last.result[1]
PrevResult == c_prev.result[1]

\* C12: analyze returns total_files = |files| and a risk_score that is 0 for
\* an empty file list and otherwise min(100, 10 + tier + floor(50*s/n) + 5*h),
\* with n = |files|, tier = 20 if n > 1000, 15 if n > 100, 10 if n > 10, else
\* 5, s = |sensitive_files| and h the number of high-risk sensitive files; so
\* 0 <= risk_score <= 100, and risk_score > 0 for every non-empty list.
C12_RiskScoreFormula ==
    c_last.result # <<>> =>
        LET n == Len(c_last.files)
            s == Len(LastResult.sensitive_files)
            h == HighRiskCount(LastResult.sensitive_files)
            tier == IF n > 1000 THEN 20 ELSE IF n > 100 THEN 15
                    ELSE IF n > 10 THEN 10 ELSE 5
        IN /\ LastResult.total_files = n
           /\ LastResult.risk_score =
                 IF n = 0 THEN 0 ELSE Min(100, 10 + tier + ((50 * s) \div n) + 5 * h)
           /\ LastResult.risk_score >= 0
           /\ LastResult.risk_score <= 100
           /\ n > 0 => LastResult.risk_score > 0

\* C13 (as stated): of two file lists of the same length, the one with at
\* least as many sensitive files has at least the risk_score of the other.
C13_MonotoneInSensitiveCount ==
    (/\ c_prev.result # <<>>
     /\ Len(c_last.files) = Len(c_prev.files)
     /\ Len(LastResult.sensitive_files) >= Len(PrevResult.sensitive_files))
    => LastResult.risk_score >= PrevResult.risk_score

\* C13 (amended): of two file lists of the same length, the one with at least
\* as many sensitive files and at least as many high-risk sensitive files has
\* at least the risk_score of the other.
C13_MonotoneInSensitiveAndHighRiskCount ==
    (/\ c_prev.result # <<>>
     /\ Len(c_last.files) = Len(c_prev.files)
     /\ Len(LastResult.sensitive_files) >= Len(PrevResult.sensitive_files)
     /\ HighRiskCount(LastResult.sensitive_files)
           >= HighRiskCount(PrevResult.sensitive_files))
    => LastResult.risk_score >= PrevResult.risk_score

\* two lists of 50 keys, the later one with more sensitive and more high-risk
\* keys, and a higher score below the cap
C13_Witness ==
    /\ c_prev.result # <<>>
    /\ Len(c_last.files) = 50
    /\ Len(c_prev.files) = 50
    /\ Len(LastResult.sensitive_files) > Len(PrevResult.sensitive_files)
    /\ HighRiskCount(LastResult.sensitive_files)
          > HighRiskCount(PrevResult.sensitive_files)
    /\ LastResult.risk_score > PrevResult.risk_score
    /\ PrevResult.risk_score > 0

\* C14: for every input file list, also one in which a key occurs more than
\* once, the sensitive_files analyze returns contains only keys of the input,
\* contains no key twice, and lists its keys in input order.
C14_SensitiveFilesSubsetNoDuplicates ==
    c_last.result # <<>> =>
        /\ SeqRange(LastResult.sensitive_files) \subseteq SeqRange(c_last.files)
        /\ NoDuplicates(LastResult.sensitive_files)
        /\ IsSubSequence(LastResult.sensitive_files, c_last.files)

(***************************************************************************)
(* PermissionChecker (workers/permission_checker.py)                       *)
(***************************************************************************)
\* the longest files_found list handed to the checker
MaxCheckerFiles == 2

\* the permission strings a caller may pass
RawPermissions == {"list", "read", "get", "write", "put", "delete", "write_acl"}

\* object keys handed to the checker
CheckerFileNames == {".env", "Server.PEM", "logo.png"}

\* files_found: None, or a list of keys
CheckerFileLists == {Nothing} \cup {Some(f) : f \in SeqsUpTo(CheckerFileNames, MaxCheckerFiles)}

\* Map permission strings to types
PermTypesPerSynonym(permissions) ==
    (IF "list" \in permissions THEN <<"LIST">> ELSE <<>>)
    \o (IF "read" \in permissions THEN <<"READ">> ELSE <<>>)
    \o (IF "get" \in permissions THEN <<"READ">> ELSE <<>>)
    \o (IF "write" \in permissions THEN <<"WRITE">> ELSE <<>>)
    \o (IF "put" \in permissions THEN <<"WRITE">> ELSE <<>>)
    \o (IF "delete" \in permissions THEN <<"DELETE">> ELSE <<>>)
PermTypes(permissions) ==
    (IF "list" \in permissions THEN <<"LIST">> ELSE <<>>)
    \o (IF "read" \in permissions \/ "get" \in permissions THEN <<"READ">> ELSE <<>>)
    \o (IF "write" \in permissions \/ "put" \in permissions THEN <<"WRITE">> ELSE <<>>)
    \o (IF "delete" \in permissions THEN <<"DELETE">> ELSE <<>>)

\* is_writable = any(p in perm_types for p in [WRITE, DELETE, WRITE_ACL])
IsWritable(perm_types) ==
    \E p \in {"WRITE", "DELETE", "WRITE_ACL"} : InSeq(p, perm_types)

checker_sensitive_patterns == <<".env", "secret", "password", "credential", "key", ".pem">>

\* any(pattern in f.lower() for pattern in sensitive_patterns), for each key
CheckerIsSensitive ==
    [name \in CheckerFileNames |->
        \E i \in 1..Len(checker_sensitive_patterns) :
            Contains(Lower(Chars(name)), Chars(checker_sensitive_patterns[i]))]

\* if files_found: has_sensitive = any(... for f in files_found)
HasSensitive(files_found) ==
    /\ files_found # Nothing
    /\ files_found[1] # <<>>
    /\ \E i \in 1..Len(files_found[1]) : CheckerIsSensitive[files_found[1][i]]

\* PermissionChecker._calculate_risk_level
CalculateRiskLevelFilesFirst(is_public, is_writable, files_found) ==
    IF ~is_public THEN "low"
    ELSE IF HasSensitive(files_found) THEN "high"
    ELSE IF is_writable THEN "critical"
    ELSE "medium"
CalculateRiskLevel(is_public, is_writable, files_found) ==
    IF ~is_public THEN "low"
    ELSE IF is_writable THEN "critical"
    ELSE IF HasSensitive(files_found) THEN "high"
    ELSE IF files_found # Nothing /\ Len(files_found[1]) > 0 THEN "medium"
    ELSE "medium"

\* the lines of the recommendations; the file-count line carries its number
PubliclyAccessibleLine == <<"Bucket is publicly accessible. Review if this is intentional.">>
GuidanceLines(provider) ==
    CASE provider = "aws_s3" ->
            <<<<"Consider enabling AWS S3 Block Public Access settings.">>,
              <<"Review bucket ACL and bucket policies for AllUsers grants.">>>>
      [] provider = "gcp_gcs" ->
            <<<<"Check IAM policy for 'allUsers' or 'allAuthenticatedUsers' members.">>,
              <<"Consider using signed URLs for temporary access instead.">>>>
      [] provider = "azure_blob" ->
            <<<<"Change container public access level to 'Private'.">>,
              <<"Use Shared Access Signatures (SAS) for controlled access.">>>>
      [] OTHER -> <<>>
PublicWriteLines ==
    <<<<"CRITICAL: Bucket has public write access! This allows anyone to upload/modify files.">>,
      <<"Immediately remove public write permissions.">>>>
FileCountLine(n) == <<"Found ", n, " accessible files. Review for sensitive data.">>
ProperlySecuredLine == <<"Bucket appears to be properly secured.">>

\* _generate_recommendations(is_public, is_writable, provider, files_found)
GenerateRecommendationsSilent(is_public, is_writable, provider, files_found) ==
    (IF is_public THEN <<PubliclyAccessibleLine>> \o GuidanceLines(provider) ELSE <<>>)
    \o (IF is_writable THEN PublicWriteLines ELSE <<>>)
    \o (IF files_found # Nothing /\ Len(files_found[1]) > 0
        THEN <<FileCountLine(Len(files_found[1]))>> ELSE <<>>)
GenerateRecommendations(is_public, is_writable, provider, files_found) ==
    LET recommendations ==
            (IF is_public THEN <<PubliclyAccessibleLine>> \o GuidanceLines(provider)
             ELSE <<>>)
            \o (IF is_writable THEN PublicWriteLines ELSE <<>>)
            \o (IF files_found # Nothing /\ Len(files_found[1]) > 0
                THEN <<FileCountLine(Len(files_found[1]))>> ELSE <<>>)
    IN IF recommendations = <<>> THEN <<ProperlySecuredLine>> ELSE recommendations

\* PermissionChecker.analyze_permissions(bucket_name, provider, permissions,
\* is_public, files_found)
AnalyzePermissions(provider, permissions, is_public, files_found) ==
    LET perm_types == PermTypes(permissions)
        is_writable == IsWritable(perm_types)
    IN [permissions |-> perm_types, is_public |-> is_public,
        is_writable |-> is_writable,
        risk_level |-> CalculateRiskLevel(is_public, is_writable, files_found),
        recommendations |->
            GenerateRecommendations(is_public, is_writable, provider, files_found)]

\* analyze_permissions is called and runs to its return
CallAnalyzePermissions ==
    /\ k_pc = "idle"
    /\ \E provider \in ProviderSet \cup {OtherProvider},
          permissions \in SUBSET RawPermissions, is_public \in BOOLEAN,
          files_found \in CheckerFileLists :
          /\ k_args' = [provider |-> provider, permissions |-> permissions,
                        is_public |-> is_public, files_found |-> files_found]
          /\ k_ret' = AnalyzePermissions(provider, permissions, is_public, files_found)
    /\ k_pc' = "done"
    /\ CheckerFrame

CheckerNext == CallAnalyzePermissions

(***************************************************************************)
(* Claims about PermissionChecker                                          *)
(***************************************************************************)
\* some file's lowercase name contains one of .env, secret, password,
\* credential, key, .pem
SomeFileNamesASecret(files_found) ==
    /\ files_found # Nothing
    /\ \E i \in 1..Len(files_found[1]) :
          \E p \in {".env", "secret", "password", "credential", "key", ".pem"} :
              Contains(Lower(Chars(files_found[1][i])), Chars(p))

\* C15: analyze_permissions assigns risk_level by the decision table read
\* top-down: low when is_public is false; otherwise critical when the bucket
\* is writable; otherwise high when some file's lowercase name contains one of
\* the sensitive substrings; otherwise medium; it is always one of the four.
C15_RiskLevelDecisionTable ==
    k_pc = "done" =>
        /\ k_ret.risk_level =
              IF ~k_args.is_public THEN "low"
              ELSE IF k_ret.is_writable THEN "critical"
              ELSE IF SomeFileNamesASecret(k_args.files_found) THEN "high"
              ELSE "medium"
        /\ k_ret.risk_level \in {"low", "medium", "high", "critical"}

\* a public bucket that accepts delete and holds a key file is critical
C15_Witness ==
    /\ k_pc = "done"
    /\ k_args.is_public
    /\ k_args.permissions = {"list", "delete"}
    /\ k_args.files_found = Some(<<"logo.png", "Server.PEM">>)
    /\ k_ret.is_writable
    /\ k_ret.risk_level = "critical"

(***************************************************************************)
(* Claims about ScanOrchestrator.scan_bucket with a provider               *)
(***************************************************************************)
\* the probes whose scan_bucket the call for bucket b invoked
Invoked(b) == {p \in ProviderSet : o_calls[b].task[p] # "none"}

\* C16: scan_bucket(name, provider=p) with a provider given invokes only p's
\* probe and, when the probe returns, returns a sequence of exactly one
\* result, whose provider is p; if no probe is registered for p it returns
\* the empty sequence and invokes no probe.
C16_SingleProviderDispatch ==
    (o_pc = "done" /\ o_op = "scan_bucket" /\ o_provider # None) =>
        LET b == o_names[1]
        IN IF o_provider \in ProviderSet
           THEN /\ Invoked(b) = {o_provider}
                /\ ~o_raised => o_out = <<ProbeResult(o_provider, b)>>
           ELSE /\ Invoked(b) = {}
                /\ ~o_raised
                /\ o_out = <<>>

\* the GCS probe alone was invoked for "acme" and its result is the only one
C16_Witness ==
    /\ o_pc = "done"
    /\ o_op = "scan_bucket"
    /\ o_provider = "gcp_gcs"
    /\ o_names = <<"acme">>
    /\ ~o_raised
    /\ Len(o_out) = 1
    /\ o_out[1].provider = "gcp_gcs"
    /\ o_calls["acme"].task["aws_s3"] = "none"

(***************************************************************************)
(* QueueConsumer.process_task (consumer.py)                                *)
(***************************************************************************)
\* task.get('provider'): absent, empty, a CloudProvider value, or another string
ProviderStrings == ProviderSet \cup {None, "", "s3"}
Tasks == [bucket_name : BucketNames, provider : ProviderStrings]

\* if provider_str: (None and the empty string are falsy)
Truthy(provider_str) == provider_str \notin {None, ""}

\* CloudProvider(provider_str) raises ValueError for a string that is no member
IsCloudProvider(provider_str) == provider_str \in ProviderSet

\* what awaiting self.orchestrator.scan_bucket(bucket_name, provider) can give:
\* with no provider the results of the probes that returned, in scanner order;
\* with a provider that probe's result, or the exception the probe let out
ScanBucketOutcomes(b, prov) ==
    IF prov = None
    THEN {[raised |-> FALSE,
           ret |-> ReturnedResults([NewCall(None) EXCEPT !.task = t], b)] :
             t \in [ProviderSet -> {"returned", "raised"}]}
    ELSE {[raised |-> FALSE, ret |-> <<ProbeResult(ScannersGet(prov), b)>>],
          [raised |-> TRUE, ret |-> <<>>]}

\* how one await of result_callback(result) can end
HandlerOutcomes == {"returns", "Exception", "BaseException"}

\* a caller invokes process_task(task, result_callback); the coroutine runs up
\* to the await of scan_bucket, or to its end when CloudProvider() raises
CallProcessTask ==
    /\ t_pc = "idle"
    /\ \E task \in Tasks, callback \in BOOLEAN :
        /\ t_task' = task
        /\ t_callback' = callback
        /\ IF Truthy(task.provider) /\ ~IsCloudProvider(task.provider)
           THEN /\ t_pc' = "done"
                /\ t_scans' = <<>>
           ELSE /\ t_pc' = "scanning"
                /\ t_scans' = <<[bucket_name |-> task.bucket_name,
                                 provider |-> IF Truthy(task.provider)
                                              THEN task.provider ELSE None]>>
    /\ t_results' = Nothing
    /\ t_handed' = <<>>
    /\ t_raised' = FALSE
    /\ ConsumerFrame

\* after the scan: if result_callback: for result in results: ...
AfterScan(results) ==
    IF t_callback /\ results # <<>> THEN "handing" ELSE "done"

\* the awaited scan_bucket returns its list
ScanReturns ==
    /\ t_pc = "scanning"
    /\ \E o \in ScanBucketOutcomes(t_scans[1].bucket_name, t_scans[1].provider) :
        /\ ~o.raised
        /\ t_results' = Some(o.ret)
        /\ t_pc' = AfterScan(o.ret)
    /\ UNCHANGED <<t_task, t_callback, t_scans, t_handed, t_raised>>
    /\ ConsumerFrame

\* the awaited scan_bucket raises: except Exception logs it
ScanRaises ==
    /\ t_pc = "scanning"
    /\ \E o \in ScanBucketOutcomes(t_scans[1].bucket_name, t_scans[1].provider) :
        o.raised
    /\ t_pc' = "done"
    /\ UNCHANGED <<t_task, t_callback, t_scans, t_results, t_handed, t_raised>>
    /\ ConsumerFrame

\* where the loop over results goes after the handler's await ended with outcome
\* how, having been given the last of n results or an earlier one
AfterHandler(how, last) == IF how = "returns" /\ ~last THEN "handing" ELSE "done"

\* one turn of the loop: result_callback is awaited with the next result and
\* returns, raises an Exception (logged by except Exception, the loop is left)
\* or raises a BaseException (which leaves process_task)
HandlerStep ==
    /\ t_pc = "handing"
    /\ \E how \in HandlerOutcomes :
        LET results == t_results[1]
            i == Len(t_handed) + 1
        IN /\ t_handed' = Append(t_handed, results[i])
           /\ t_pc' = AfterHandler(how, i = Len(results))
           /\ t_raised' = (how = "BaseException")
    /\ UNCHANGED <<t_task, t_callback, t_scans, t_results>>
    /\ ConsumerFrame

\* the caller takes process_task's outcome
ReturnProcessTask ==
    /\ t_pc = "done"
    /\ t_pc' = "idle"
    /\ t_task' = [bucket_name |-> "", provider |-> None]
    /\ t_callback' = FALSE
    /\ t_scans' = <<>>
    /\ t_results' = Nothing
    /\ t_handed' = <<>>
    /\ t_raised' = FALSE
    /\ ConsumerFrame

ConsumerNext ==
    \/ CallProcessTask
    \/ ScanReturns
    \/ ScanRaises
    \/ HandlerStep
    \/ ReturnProcessTask

(***************************************************************************)
(* Claims about QueueConsumer.process_task                                 *)
(***************************************************************************)
\* C17: process_task, for every task and every behaviour of the result
\* handler, runs orchestrator.scan_bucket once for the task's bucket (and
\* provider, if any) and then hands every returned result, in order, to the
\* result handler exactly once; the handler is never invoked before the scan
\* has finished, and process_task never raises.
C17_ScanThenHandEveryResult ==
    /\ t_handed # <<>> => t_results # Nothing
    /\ (t_pc = "done" /\ t_callback) =>
          /\ ~t_raised
          /\ Len(t_scans) = 1
          /\ t_scans[1].bucket_name = t_task.bucket_name
          /\ Truthy(t_task.provider) => t_scans[1].provider = t_task.provider
          /\ t_results # Nothing => t_handed = t_results[1]

(***************************************************************************)
(* RateLimiter and AdaptiveRateLimiter (rate_limiter.py)                   *)
(*                                                                         *)
(* Time is counted in ticks.  A grant's time stamp is kept as its age      *)
(* now - stamp, a caller's start_time as the time elapsed since, and a     *)
(* sleep as the ticks left until it ends; each is capped where the code    *)
(* can no longer tell larger values apart.                                 *)
(***************************************************************************)
TimeWindow == 2
MaxRequests == 2
MaxTimeout == 2
MaxRate == 3
MaxSuccessCount == 12

Callers == {"c1", "c2"}
NoTimeout == -1
Timeouts == {NoTimeout} \cup (0..MaxTimeout)

Max(a, b) == IF a > b THEN a ELSE b

IdleCaller == [pc |-> "idle", timeout |-> NoTimeout, elapsed |-> 0,
               sleep |-> 0, ret |-> "None"]

\* the run of consecutive reports of one kind that is under way: its kind, its
\* length so far, and max_requests when it began
NoStreak == [kind |-> "none", n |-> 0, from |-> 0]
Extend(streak, kind, max_requests) ==
    IF streak.kind = kind
    THEN [streak EXCEPT !.n = Min(@ + 1, MaxSuccessCount)]
    ELSE [kind |-> kind, n |-> 1, from |-> max_requests]

\* RateLimiter(max_requests, time_window)
NewRateLimiter ==
    /\ r_kind = "none"
    /\ \E max_requests \in 0..MaxRequests :
        r_max_requests' = max_requests
    /\ r_kind' = "RateLimiter"
    /\ r_requests' = <<>>
    /\ UNCHANGED <<r_callers, r_min_rate, r_max_rate, r_success_count,
                   r_failure_count>>
    /\ UNCHANGED r_streak
    /\ UNCHANGED r_granted
    /\ LimiterFrame

\* AdaptiveRateLimiter(initial_rate, min_rate, max_rate)
NewAdaptiveRateLimiter ==
    /\ r_kind = "none"
    /\ \E initial_rate \in 1..MaxRate, min_rate \in 1..MaxRate,
          max_rate \in 1..MaxRate :
        /\ min_rate <= initial_rate
        /\ initial_rate <= max_rate
        /\ r_max_requests' = initial_rate
        /\ r_min_rate' = min_rate
        /\ r_max_rate' = max_rate
    /\ r_kind' = "AdaptiveRateLimiter"
    /\ r_requests' = <<>>
    /\ r_success_count' = 0
    /\ r_failure_count' = 0
    /\ UNCHANGED r_callers
    /\ r_streak' = NoStreak
    /\ UNCHANGED r_granted
    /\ LimiterFrame

\* a caller invokes acquire(timeout): start_time = time.time()
CallAcquire(c) ==
    /\ r_kind # "none"
    /\ r_callers[c].pc = "idle"
    /\ \E timeout \in Timeouts :
        r_callers' = [r_callers EXCEPT ![c] =
                        [IdleCaller EXCEPT !.pc = "trying", !.timeout = timeout]]
    /\ UNCHANGED <<r_kind, r_max_requests, r_requests, r_min_rate, r_max_rate,
                   r_success_count, r_failure_count>>
    /\ UNCHANGED r_streak
    /\ UNCHANGED r_granted
    /\ LimiterFrame

\* while self.requests and self.requests[0] < now - self.time_window: popleft()
RECURSIVE PurgeOldEarly(_)
PurgeOldEarly(requests) ==
    IF requests # <<>> /\ Head(requests) >= TimeWindow
    THEN PurgeOldEarly(Tail(requests))
    ELSE requests
RECURSIVE PurgeOld(_)
PurgeOld(requests) ==
    IF requests # <<>> /\ Head(requests) > TimeWindow
    THEN PurgeOld(Tail(requests))
    ELSE requests

\* the ticks asyncio.sleep(self.time_window / self.max_requests) takes at least
WaitTime(max_requests) == (TimeWindow + max_requests - 1) \div max_requests

\* one turn of acquire's loop, from taking the lock to the sleep: the grant, the
\* timeout, or the wait (whose division raises when max_requests is 0)
AcquireStep(c) ==
    /\ r_callers[c].pc = "trying"
    /\ r_callers[c].sleep = 0
    /\ LET me == r_callers[c]
           requests == PurgeOld(r_requests)
       IN IF Len(requests) < r_max_requests
          THEN /\ r_requests' = Append(requests, 0)
               /\ r_granted' = Append(r_granted, 0)
               /\ r_callers' = [r_callers EXCEPT ![c].pc = "returned",
                                                 ![c].ret = "True"]
          ELSE /\ r_requests' = requests
               /\ UNCHANGED r_granted
               /\ r_callers' = [r_callers EXCEPT ![c] =
                    IF me.timeout # NoTimeout /\ me.elapsed >= me.timeout
                    THEN [me EXCEPT !.pc = "returned", !.ret = "False"]
                    ELSE IF r_max_requests = 0
                    THEN [me EXCEPT !.pc = "returned", !.ret = "ZeroDivisionError"]
                    ELSE [me EXCEPT !.sleep = WaitTime(r_max_requests)]]
    /\ UNCHANGED <<r_kind, r_max_requests, r_min_rate, r_max_rate,
                   r_success_count, r_failure_count>>
    /\ UNCHANGED r_streak
    /\ LimiterFrame

\* the caller takes what acquire returned or raised
ReturnAcquire(c) ==
    /\ r_callers[c].pc = "returned"
    /\ r_callers' = [r_callers EXCEPT ![c] = IdleCaller]
    /\ UNCHANGED <<r_kind, r_max_requests, r_requests, r_min_rate, r_max_rate,
                   r_success_count, r_failure_count>>
    /\ UNCHANGED r_streak
    /\ UNCHANGED r_granted
    /\ LimiterFrame

\* time.time() advances by one tick
Tick ==
    /\ r_kind # "none"
    /\ r_requests' = [i \in 1..Len(r_requests) |->
                        Min(r_requests[i] + 1, TimeWindow + 1)]
    /\ r_callers' = [c \in Callers |->
          IF r_callers[c].pc = "trying"
          THEN [r_callers[c] EXCEPT !.elapsed = Min(@ + 1, MaxTimeout),
                                    !.sleep = Max(@ - 1, 0)]
          ELSE r_callers[c]]
    /\ UNCHANGED <<r_kind, r_max_requests, r_min_rate, r_max_rate,
                   r_success_count, r_failure_count>>
    /\ UNCHANGED r_streak
    /\ r_granted' = LET recent == SelectSeq(r_granted, LAMBDA age : age < TimeWindow)
                    IN [i \in 1..Len(recent) |-> recent[i] + 1]
    /\ LimiterFrame

\* report_success()
ReportSuccess ==
    /\ r_kind = "AdaptiveRateLimiter"
    /\ r_success_count < MaxSuccessCount
    /\ LET success_count == r_success_count + 1
           new_rate == Min(r_max_requests + 1, r_max_rate)
       IN IF success_count > 10 /\ r_failure_count = 0
          THEN /\ r_max_requests' = new_rate
               /\ r_success_count' = 0
          ELSE /\ r_max_requests' = r_max_requests
               /\ r_success_count' = success_count
    /\ UNCHANGED <<r_kind, r_requests, r_callers, r_min_rate, r_max_rate,
                   r_failure_count>>
    /\ r_streak' = Extend(r_streak, "success", r_max_requests)
    /\ UNCHANGED r_granted
    /\ LimiterFrame

\* new_rate = max(self.max_requests // 2, self.min_rate)
DecreasedRateUnbounded(max_requests, min_rate) == max_requests \div 2
DecreasedRate(max_requests, min_rate) == Max(max_requests \div 2, min_rate)

\* report_failure()
ReportFailure ==
    /\ r_kind = "AdaptiveRateLimiter"
    /\ LET failure_count == r_failure_count + 1
           new_rate == DecreasedRate(r_max_requests, r_min_rate)
       IN IF failure_count >= 3
          THEN /\ r_max_requests' = new_rate
               /\ r_failure_count' = 0
          ELSE /\ r_max_requests' = r_max_requests
               /\ r_failure_count' = failure_count
    /\ r_success_count' = 0
    /\ UNCHANGED <<r_kind, r_requests, r_callers, r_min_rate, r_max_rate>>
    /\ r_streak' = Extend(r_streak, "failure", r_max_requests)
    /\ UNCHANGED r_granted
    /\ LimiterFrame

LimiterNext ==
    \/ NewRateLimiter
    \/ \E c \in Callers : CallAcquire(c)
    \/ \E c \in Callers : AcquireStep(c)
    \/ \E c \in Callers : ReturnAcquire(c)
    \/ Tick

AdaptiveNext ==
    \/ NewAdaptiveRateLimiter
    \/ ReportSuccess
    \/ ReportFailure

(***************************************************************************)
(* Claims about RateLimiter.acquire                                        *)
(***************************************************************************)
\* C18: an acquire call that has ended has returned true or false and has not
\* raised: true for a granted slot, false only when a timeout was given and
\* no slot became available within it; without a timeout it returns only
\* true.
C18_AcquireReturnsTrueOrFalse ==
    \A c \in Callers :
        r_callers[c].pc = "returned" =>
            /\ r_callers[c].ret \in {"True", "False"}
            /\ r_callers[c].ret = "False" =>
                  /\ r_callers[c].timeout # NoTimeout
                  /\ r_callers[c].elapsed >= r_callers[c].timeout

(***************************************************************************)
(* Claims about AdaptiveRateLimiter                                        *)
(***************************************************************************)
\* C19: a sufficiently long run of consecutive report_success calls with no
\* report_failure in between, begun with max_requests below max_rate, has
\* increased max_requests; and a sufficiently long run of consecutive
\* report_failure calls, begun with max_requests above min_rate, has decreased
\* it.
C19_SustainedReportsMoveTheRate ==
    /\ (/\ r_streak.kind = "success"
        /\ r_streak.n >= MaxSuccessCount
        /\ r_streak.from < r_max_rate) => r_max_requests > r_streak.from
    /\ (/\ r_streak.kind = "failure"
        /\ r_streak.n >= 3
        /\ r_streak.from > r_min_rate) => r_max_requests < r_streak.from

(***************************************************************************)
(* The scan queue: QueueProducer.publish_scan_task (producer.py) and       *)
(* QueueConsumer.consume_task (consumer.py) on one Redis list              *)
(***************************************************************************)
MaxTasks == 3

Producers == {"p1", "p2"}
Consumers == {"c1", "c2"}
Priorities == {0, 1}
\* metadata: None, or a value json.dumps cannot serialise
Metadatas == {None, "unserializable"}

IdleCall == [pc |-> "idle", task |-> <<>>, ret |-> "None"]

\* task = {'bucket_name': ..., 'provider': ..., 'priority': ..., 'metadata':
\* metadata or {}}; id tells apart the publish calls
BuildTask(id, bucket_name, provider, priority, metadata) ==
    [id |-> id, bucket_name |-> bucket_name, provider |-> provider,
     priority |-> priority,
     metadata |-> IF metadata = None THEN "{}" ELSE metadata]

\* json.dumps(task) raises TypeError for a value it cannot serialise
JsonDumpsRaises(task) == task.metadata = "unserializable"
JsonDumps(task) == [json |-> task]
\* json.loads(task_json)
JsonLoads(task_json) == task_json.json

\* LPUSH queue value: the value becomes the head of the list
Lpush(list, value) == <<value>> \o list
\* BRPOP queue: the tail of the list is taken
PoppedHead(list) == [value |-> Head(list), rest |-> Tail(list)]
Popped(list) == [value |-> list[Len(list)], rest |-> SubSeq(list, 1, Len(list) - 1)]

\* a caller invokes publish_scan_task: the task is built and serialised and the
\* LPUSH is sent, or json.dumps raises and False is returned
CallPublish(p) ==
    /\ q_pub[p].pc = "idle"
    /\ q_next <= MaxTasks
    /\ \E priority \in Priorities, metadata \in Metadatas :
        LET task == BuildTask(q_next, "acme", None, priority, metadata)
        IN q_pub' = [q_pub EXCEPT ![p] =
              IF JsonDumpsRaises(task)
              THEN [pc |-> "returned", task |-> <<>>, ret |-> "False"]
              ELSE [pc |-> "sent", task |-> <<JsonDumps(task)>>, ret |-> "None"]]
    /\ q_next' = q_next + 1
    /\ UNCHANGED <<q_list, q_con, q_published, q_consumed>>
    /\ QueueFrame

\* the server executes the LPUSH
LpushApply(p) ==
    /\ q_pub[p].pc = "sent"
    /\ q_list' = Lpush(q_list, q_pub[p].task[1])
    /\ q_published' = Append(q_published, JsonLoads(q_pub[p].task[1]).id)
    /\ q_pub' = [q_pub EXCEPT ![p].pc = "applied"]
    /\ UNCHANGED <<q_con, q_next, q_consumed>>
    /\ QueueFrame

\* the awaited lpush returns (True) or raises (except Exception: False); it
\* can raise before or after the server executed it
LpushEnds(p) ==
    /\ q_pub[p].pc \in {"sent", "applied"}
    /\ \E raises \in BOOLEAN :
        /\ q_pub[p].pc = "sent" => raises
        /\ q_pub' = [q_pub EXCEPT ![p].pc = "returned",
                                  ![p].ret = IF raises THEN "False" ELSE "True"]
    /\ UNCHANGED <<q_list, q_con, q_next, q_published, q_consumed>>
    /\ QueueFrame

\* the caller takes publish_scan_task's result
ReturnPublish(p) ==
    /\ q_pub[p].pc = "returned"
    /\ q_pub' = [q_pub EXCEPT ![p] = IdleCall]
    /\ UNCHANGED <<q_list, q_con, q_next, q_published, q_consumed>>
    /\ QueueFrame

\* a caller invokes consume_task: the BRPOP is sent
CallConsume(c) ==
    /\ q_con[c].pc = "idle"
    /\ q_con' = [q_con EXCEPT ![c].pc = "sent"]
    /\ UNCHANGED <<q_list, q_pub, q_next, q_published, q_consumed>>
    /\ QueueFrame

\* the server executes the BRPOP on a list that is not empty
BrpopApply(c) ==
    /\ q_con[c].pc = "sent"
    /\ q_list # <<>>
    /\ LET popped == Popped(q_list)
       IN /\ q_list' = popped.rest
          /\ q_con' = [q_con EXCEPT ![c].pc = "applied",
                                    ![c].task = <<popped.value>>]
          /\ q_consumed' = Append(q_consumed, JsonLoads(popped.value).id)
    /\ UNCHANGED <<q_pub, q_next, q_published>>
    /\ QueueFrame

\* the awaited brpop ends: with the popped value (the task is returned), with
\* nothing after the timeout on an empty list (None), or by raising (except
\* Exception: None), before or after the server executed it
BrpopEnds(c) ==
    /\ q_con[c].pc \in {"sent", "applied"}
    /\ \E raises \in BOOLEAN :
        /\ (q_con[c].pc = "sent" /\ q_list # <<>>) => raises
        /\ q_con' = [q_con EXCEPT ![c] =
              IF raises \/ q_con[c].pc = "sent"
              THEN [pc |-> "returned", task |-> <<>>, ret |-> "None"]
              ELSE [pc |-> "returned", task |-> <<JsonLoads(q_con[c].task[1])>>,
                    ret |-> "task"]]
    /\ UNCHANGED <<q_list, q_pub, q_next, q_published, q_consumed>>
    /\ QueueFrame

\* the caller takes consume_task's result
ReturnConsume(c) ==
    /\ q_con[c].pc = "returned"
    /\ q_con' = [q_con EXCEPT ![c] = IdleCall]
    /\ UNCHANGED <<q_list, q_pub, q_next, q_published, q_consumed>>
    /\ QueueFrame

QueueNext ==
    \/ \E p \in Producers : CallPublish(p)
    \/ \E p \in Producers : LpushApply(p)
    \/ \E p \in Producers : LpushEnds(p)
    \/ \E p \in Producers : ReturnPublish(p)
    \/ \E c \in Consumers : CallConsume(c)
    \/ \E c \in Consumers : BrpopApply(c)
    \/ \E c \in Consumers : BrpopEnds(c)
    \/ \E c \in Consumers : ReturnConsume(c)

(***************************************************************************)
(* Claims about the scan queue                                             *)
(***************************************************************************)
IsPrefix(s, t) == Len(s) <= Len(t) /\ SubSeq(t, 1, Len(s)) = s

\* the ids of the tasks that consume_task calls hold or have returned
Holding(c) == IF q_con[c].task = <<>> THEN {}
              ELSE {IF q_con[c].pc = "applied"
                    THEN JsonLoads(q_con[c].task[1]).id
                    ELSE q_con[c].task[1].id}

StepOrder == <<"check_bucket_exists", "check_public_access",
               "get_bucket_permissions", "list_files">>
Called(step) == \E i \in 1..Len(s_calls) : s_calls[i] = step

\* C22: within one probe's scan_bucket the steps run strictly in the order
\* check_bucket_exists, check_public_access, get_bucket_permissions,
\* list_files, each called only once the previous one has returned;
\* check_public_access and get_bucket_permissions are called only if existence
\* was true, and list_files only if the access level is neither private nor
\* unknown.
C22_StepsInOrder ==
    /\ Len(s_calls) <= Len(StepOrder)
    /\ s_calls = SubSeq(StepOrder, 1, Len(s_calls))
    /\ (Called("check_public_access") \/ Called("get_bucket_permissions")) =>
          s_local.exists = Some(TRUE)
    /\ Called("list_files") =>
          /\ s_local.permissions # None
          /\ s_local.access_level \notin {PRIVATE, UNKNOWN, None}

\* a scan of a readable bucket has gone through all four steps
C22_Witness ==
    /\ s_pc = "done"
    /\ s_calls = StepOrder
    /\ s_local.exists = Some(TRUE)
    /\ s_local.access_level = PUBLIC_READ
    /\ s_exc = NoException

(***************************************************************************)
(* Persisting a result: scan_bucket_immediate (api/routes.py) and          *)
(* result_callback (worker_service.py)                                     *)
(***************************************************************************)
MaxSavedFiles == 2

SavedFileNames == {".env", "logo.png"}
\* the listings of the results that are persisted: short ones and one with ten
\* sensitive keys
SavedListings == SeqsUpTo(SavedFileNames, MaxSavedFiles) \cup {MixedList(10, 10, 0)}
SavedPermissions == SUBSET {"list", "write"}

NoResult == [is_accessible |-> FALSE, permissions |-> {},
             files_found |-> Nothing, sensitive_files |-> Nothing, scanned |-> FALSE]
NoRows == [path \in {"api", "worker"} |-> Nothing]

\* if result.sensitive_files: (None and the empty list are falsy)
HasSensitiveFiles(result) ==
    result.sensitive_files # Nothing /\ result.sensitive_files[1] # <<>>
SensitiveCount(result) ==
    IF result.sensitive_files = Nothing THEN 0 ELSE Len(result.sensitive_files[1])

\* routes.py: risk_level = "low"; risk_score = 0; if result.is_accessible: ...
ImmediateRisk(result) ==
    LET risk_score == IF result.is_accessible
                      THEN 30 + (IF HasSensitiveFiles(result)
                                 THEN SensitiveCount(result) * 10 ELSE 0)
                      ELSE 0
    IN [risk_level |-> IF ~result.is_accessible THEN "low"
                       ELSE IF HasSensitiveFiles(result) THEN "high" ELSE "medium",
        risk_score |-> Min(risk_score, 100)]

\* worker_service.py: the same computation, written out a second time
WorkerRisk(result) ==
    LET risk_score == (IF result.is_accessible THEN 30 ELSE 0)
                      + (IF result.is_accessible /\ HasSensitiveFiles(result)
                         THEN SensitiveCount(result) * 10 ELSE 0)
    IN [risk_level |-> IF result.is_accessible
                       THEN IF HasSensitiveFiles(result) THEN "high" ELSE "medium"
                       ELSE "low",
        risk_score |-> Min(risk_score, 100)]

\* a probe's scan_bucket has produced a BucketScanResult that is to be saved
ResultToSave ==
    /\ \E is_accessible \in BOOLEAN, files \in SavedListings,
          permissions \in SavedPermissions :
        d_result' = [is_accessible |-> is_accessible,
                     permissions |-> permissions,
                     files_found |-> IF is_accessible THEN Some(files) ELSE Nothing,
                     sensitive_files |-> IF is_accessible
                                         THEN Some(DetectSensitiveFiles(files))
                                         ELSE Nothing,
                     scanned |-> TRUE]
    /\ d_rows' = NoRows
    /\ SaveFrame

\* scan_bucket_immediate stores the row for the result
SaveImmediate ==
    /\ d_result.scanned
    /\ d_rows["api"] = Nothing
    /\ d_rows' = [d_rows EXCEPT !["api"] = Some(ImmediateRisk(d_result))]
    /\ UNCHANGED d_result
    /\ SaveFrame

\* the queue worker's result_callback stores the row for the result
SaveWorker ==
    /\ d_result.scanned
    /\ d_rows["worker"] = Nothing
    /\ d_rows' = [d_rows EXCEPT !["worker"] = Some(WorkerRisk(d_result))]
    /\ UNCHANGED d_result
    /\ SaveFrame

SaveNext ==
    \/ ResultToSave
    \/ SaveImmediate
    \/ SaveWorker

(***************************************************************************)
(* Claims about the persisted risk values                                  *)
(***************************************************************************)
\* what the analyzers compute for a result
AnalyzersRisk(result) ==
    [risk_level |-> AnalyzePermissions("aws_s3", result.permissions,
                                       result.is_accessible,
                                       result.files_found).risk_level,
     risk_score |-> Analyze(IF result.files_found = Nothing THEN <<>>
                            ELSE result.files_found[1]).risk_score]

\* C23: the risk_score and risk_level stored for a BucketScanResult, by the
\* immediate-scan path and by the queue worker's result handler, are the values
\* ContentAnalyzer.analyze (risk_score) and
\* PermissionChecker.analyze_permissions (risk_level) compute for that result,
\* and the two paths store identical values for the same result.
C23_PersistedRiskIsAnalyzersRisk ==
    /\ \A path \in DOMAIN d_rows :
          d_rows[path] # Nothing => d_rows[path][1] = AnalyzersRisk(d_result)
    /\ (d_rows["api"] # Nothing /\ d_rows["worker"] # Nothing) =>
          d_rows["api"] = d_rows["worker"]

(***************************************************************************)
(* Claims about the S3 layers of check_public_access                       *)
(***************************************************************************)
\* a native call of the S3 check returned its data
Retrieved(env, layer) == env[layer].exc = NoExc

\* a statement with a wildcard principal together with a read action
IsPublicReadStatement(st) ==
    /\ st.Principal \in {"\"*\"", "{\"AWS\":\"*\"}"}
    /\ st.Action \in {"\"s3:GetObject\"", "[\"s3:GetObject\",\"s3:ListBucket\"]"}

\* the classification the claim gives for the S3 layers
S3Classification(env) ==
    LET grant == IF Retrieved(env, "acl") THEN AclVerdict(env.acl.data) ELSE None
    IN IF grant # None THEN grant
       ELSE IF /\ Retrieved(env, "policy")
               /\ \E i \in 1..Len(env.policy.data) :
                     IsPublicReadStatement(env.policy.data[i])
            THEN PUBLIC_READ
       ELSE IF /\ Retrieved(env, "block")
               /\ \A sw \in BlockSwitches : ~env.block.data[sw]
            THEN UNKNOWN
       ELSE PRIVATE

\* C24: for S3, when the anonymous probe did not return 200,
\* check_public_access evaluates the bucket ACL, then the bucket policy, then
\* the public-access-block, in that order, and returns the first
\* classification: the level of a public or authenticated ACL grant; else
\* public_read exactly when some policy statement has a wildcard principal
\* together with a read action; else unknown exactly when the
\* public-access-block configuration was retrieved and all its switches are
\* off; else private.
C24_S3LayerOrderAndClassification ==
    (/\ a_pc = "done"
     /\ a_provider = "aws_s3"
     /\ ~(~a_env.get.error /\ a_env.get.status = 200)) =>
        /\ a_ret.evaluated =
              SubSeq(<<"http", "acl", "policy", "block">>, 1, Len(a_ret.evaluated))
        /\ a_ret.level = S3Classification(a_env)

(***************************************************************************)
(* Claims about ContentAnalyzer's findings                                 *)
(***************************************************************************)
\* the first category, in the fixed order, one of whose patterns matches file
FirstCategory(file) ==
    LET k == CHOOSE k \in 1..Len(SENSITIVE_PATTERNS) :
                /\ CategoryMatches[file][k]
                /\ \A j \in 1..(k - 1) : ~CategoryMatches[file][j]
    IN SENSITIVE_PATTERNS[k].category

RECURSIVE SumOfCounts(_)
SumOfCounts(findings) ==
    IF findings = <<>> THEN 0
    ELSE Head(findings).count + SumOfCounts(Tail(findings))

\* C25: in the findings each sensitive file is grouped under exactly one
\* category, the first in the fixed order credentials, private_keys,
\* config_files, database, source_code, cloud_config, logs whose patterns match
\* it; no file is counted in two findings and the counts of all findings sum to
\* the number of sensitive files.
C25_FindingsGroupByFirstCategory ==
    c_last.result # <<>> =>
        LET result == LastResult
            sensitive == result.sensitive_files
        IN /\ \A r \in 1..Len(result.findings) :
                result.findings[r].count =
                    Cardinality({i \in 1..Len(sensitive) :
                        FirstCategory(sensitive[i]) = result.findings[r].category})
           /\ SumOfCounts(result.findings) = Len(sensitive)

(***************************************************************************)
(* Claims about the mapping of a single grant to an access level           *)
(***************************************************************************)
\* native inspection is reached: the anonymous GET returned a status other
\* than 200
NativeReached == a_pc = "done" /\ ~a_env.get.error /\ a_env.get.status # 200

\* the first native layer returned a single grant / binding / property
SingleS3Grant ==
    /\ NativeReached /\ a_provider = "aws_s3"
    /\ a_env.acl.exc = NoExc /\ Len(a_env.acl.data) = 1
SingleGcsBinding ==
    /\ NativeReached /\ a_provider = "gcp_gcs"
    /\ a_env.iam.exc = NoExc /\ Len(a_env.iam.data) = 1
AzureProperties ==
    /\ NativeReached /\ a_provider = "azure_blob"
    /\ a_env.hasClient /\ a_env.props.exc = NoExc

\* C26: when native inspection is reached and the ACL or IAM policy has a
\* single grant to a public or authenticated principal, full control (S3
\* AllUsers FULL_CONTROL) or the admin role (GCS allUsers roles/storage.admin)
\* gives public_read_write, a read-only grant public_read, a write-only grant
\* public_write, a grant to S3 AuthenticatedUsers or GCS allAuthenticatedUsers
\* authenticated_read, and an Azure public_access of Container or Blob
\* public_read.
C26_SingleGrantMapping ==
    /\ SingleS3Grant =>
         LET g == a_env.acl.data[1]
             all == g.uri = "http://acs.amazonaws.com/groups/global/AllUsers"
             auth == g.uri = "http://acs.amazonaws.com/groups/global/AuthenticatedUsers"
         IN /\ all /\ g.permission = "FULL_CONTROL" => a_ret.level = PUBLIC_READ_WRITE
            /\ all /\ g.permission = "READ" => a_ret.level = PUBLIC_READ
            /\ all /\ g.permission = "WRITE" => a_ret.level = PUBLIC_WRITE
            /\ auth => a_ret.level = AUTHENTICATED_READ
    /\ SingleGcsBinding =>
         LET bd == a_env.iam.data[1]
             all == bd.members = <<"allUsers">>
             auth == bd.members = <<"allAuthenticatedUsers">>
         IN /\ all /\ bd.role = "roles/storage.admin" => a_ret.level = PUBLIC_READ_WRITE
            /\ all /\ bd.role = "roles/storage.objectViewer" => a_ret.level = PUBLIC_READ
            /\ all /\ bd.role = "roles/storage.objectCreator" => a_ret.level = PUBLIC_WRITE
            /\ auth => a_ret.level = AUTHENTICATED_READ
    /\ AzureProperties =>
         (a_env.props.data \in {"container", "blob"} => a_ret.level = PUBLIC_READ)

C26_Witness ==
    /\ SingleS3Grant
    /\ a_env.acl.data[1] = [uri |-> "http://acs.amazonaws.com/groups/global/AllUsers",
                            permission |-> "FULL_CONTROL"]
    /\ a_ret.level = PUBLIC_READ_WRITE

\* the classification one S3 grant yields by itself, None when it yields none
GrantClass(g) ==
    LET all == g.uri = "http://acs.amazonaws.com/groups/global/AllUsers"
        auth == g.uri = "http://acs.amazonaws.com/groups/global/AuthenticatedUsers"
    IN IF all /\ g.permission = "FULL_CONTROL" THEN PUBLIC_READ_WRITE
       ELSE IF all /\ g.permission \in {"READ", "READ_ACP"} THEN PUBLIC_READ
       ELSE IF all /\ g.permission \in {"WRITE", "WRITE_ACP"} THEN PUBLIC_WRITE
       ELSE IF auth THEN AUTHENTICATED_READ
       ELSE None

\* the classification one GCS binding yields by itself, None when it yields none
BindingClass(bd) ==
    LET all == "allUsers" \in SeqRange(bd.members)
        auth == "allAuthenticatedUsers" \in SeqRange(bd.members)
    IN IF all /\ bd.role = "roles/storage.objectViewer" THEN PUBLIC_READ
       ELSE IF all /\ bd.role = "roles/storage.objectCreator" THEN PUBLIC_WRITE
       ELSE IF all /\ bd.role = "roles/storage.admin" THEN PUBLIC_READ_WRITE
       ELSE IF ~all /\ auth THEN AUTHENTICATED_READ
       ELSE None

\* the positions of the entries that yield a classification, and the first
Classifying(entries, Class(_)) == {i \in 1..Len(entries) : Class(entries[i]) # None}
FirstClassifying(entries, Class(_)) ==
    CHOOSE i \in Classifying(entries, Class) :
        \A j \in Classifying(entries, Class) : i <= j

\* native inspection read the ACL / the IAM policy and some entry classifies
S3GrantsClassify ==
    /\ NativeReached /\ a_provider = "aws_s3" /\ a_env.acl.exc = NoExc
    /\ Classifying(a_env.acl.data, GrantClass) # {}
GcsBindingsClassify ==
    /\ NativeReached /\ a_provider = "gcp_gcs" /\ a_env.iam.exc = NoExc
    /\ Classifying(a_env.iam.data, BindingClass) # {}

AllUsersGrant(permission) ==
    [uri |-> "http://acs.amazonaws.com/groups/global/AllUsers", permission |-> permission]
AuthenticatedUsersGrants ==
    {g \in S3Grants : g.uri = "http://acs.amazonaws.com/groups/global/AuthenticatedUsers"}

\* C39: native ACL/IAM inspection classifies by the first grant or binding,
\* in the order the provider lists them, that yields a classification; later
\* grants are not examined, so the reported level depends on listing order:
\* for S3 an AuthenticatedUsers grant listed before an AllUsers FULL_CONTROL
\* grant yields authenticated_read, and an AllUsers READ grant listed before
\* an AllUsers WRITE grant yields public_read.
C39_FirstClassifyingGrantDecides ==
    /\ S3GrantsClassify =>
         LET grants == a_env.acl.data
         IN /\ a_ret.level = GrantClass(grants[FirstClassifying(grants, GrantClass)])
            /\ a_ret.evaluated = <<"http", "acl">>
            /\ (Len(grants) = 2 /\ grants[1] \in AuthenticatedUsersGrants
                   /\ grants[2] = AllUsersGrant("FULL_CONTROL"))
                  => a_ret.level = AUTHENTICATED_READ
            /\ grants = <<AllUsersGrant("READ"), AllUsersGrant("WRITE")>>
                  => a_ret.level = PUBLIC_READ
    /\ GcsBindingsClassify =>
         LET bindings == a_env.iam.data
         IN /\ a_ret.level
                  = BindingClass(bindings[FirstClassifying(bindings, BindingClass)])
            /\ a_ret.evaluated = <<"http", "iam">>

\* the order decides: the same two S3 grants in the two orders, and two GCS
\* bindings of which the second alone would be public
C39_Witness ==
    /\ S3GrantsClassify
    /\ Len(a_env.acl.data) = 2
    /\ a_env.acl.data[1] \in AuthenticatedUsersGrants
    /\ a_env.acl.data[2] = AllUsersGrant("FULL_CONTROL")
    /\ a_ret.level = AUTHENTICATED_READ
C39_WitnessGcs ==
    /\ GcsBindingsClassify
    /\ a_env.iam.data = <<[members |-> <<"allAuthenticatedUsers">>,
                           role |-> "roles/storage.objectViewer"],
                         [members |-> <<"allUsers">>, role |-> "roles/storage.admin"]>>
    /\ a_ret.level = AUTHENTICATED_READ

(***************************************************************************)
(* Claims about the window bound of RateLimiter                            *)
(***************************************************************************)
\* C27: under any interleaving of concurrent acquire callers on one
\* RateLimiter with fixed max_requests, at most max_requests calls are granted
\* within any interval of length time_window: at every moment the grants of
\* the time_window that ends now are at most max_requests, and two callers
\* never both take the last slot.
C27_AtMostMaxRequestsPerWindow ==
    r_kind = "RateLimiter" => Len(r_granted) <= r_max_requests

\* both callers have been granted within one window, one of them some time
\* after its call, and the window is full
C27_Witness ==
    /\ r_kind = "RateLimiter"
    /\ r_max_requests = 2
    /\ Len(r_granted) = 2
    /\ \A c \in Callers : r_callers[c].pc = "returned" /\ r_callers[c].ret = "True"
    /\ \E c \in Callers : r_callers[c].elapsed > 0

(***************************************************************************)
(* QueueConsumer.start (consumer.py): the consume loop and its semaphore   *)
(***************************************************************************)
\* the largest max_concurrent, and the number of tasks that arrive
MaxConcurrent == 2
MaxArrivals == 3

Arrivals == 1..MaxArrivals

\* asyncio.Semaphore.locked(): no slot is free
LockedNever(value) == FALSE
Locked(value) == value = 0

InProgress == {t \in Arrivals : w_jobs[t] = "running"}

\* how an execution of process_task ends: all results handed over, or a
\* failure (an unrecognised provider string, an exception from the scan or
\* from the result handler) with some results not yet handed over
NotEnded == [ended |-> FALSE, failed |-> FALSE, undelivered |-> 0]
ProcessOutcomes ==
    {[ended |-> TRUE, failed |-> FALSE, undelivered |-> 0],
     [ended |-> TRUE, failed |-> TRUE, undelivered |-> 0],
     [ended |-> TRUE, failed |-> TRUE, undelivered |-> 1]}

\* the queue after process_task ended for a task: `except Exception` only logs
PendingAfterRequeue(pending, t, outcome) ==
    IF outcome.failed THEN Append(pending, t) ELSE pending
PendingAfter(pending, t, outcome) == pending

\* start(result_callback, max_concurrent), up to the loop:
\* self.running = True; semaphore = asyncio.Semaphore(max_concurrent)
CallStart ==
    /\ w_loop = "idle"
    /\ \E max_concurrent \in 1..MaxConcurrent :
        /\ w_max' = max_concurrent
        /\ w_value' = max_concurrent
    /\ w_running' = TRUE
    /\ w_loop' = "test"
    /\ UNCHANGED <<w_pending, w_jobs, w_outcome, w_taken>>
    /\ StartFrame

\* a producer pushes a task on the queue
TaskArrives(t) ==
    /\ w_jobs[t] = "none"
    /\ w_jobs' = [w_jobs EXCEPT ![t] = "queued"]
    /\ w_pending' = Append(w_pending, t)
    /\ UNCHANGED <<w_running, w_max, w_value, w_loop, w_outcome, w_taken>>
    /\ StartFrame

\* while self.running: the loop goes on, or start returns
LoopTest ==
    /\ w_loop = "test"
    /\ w_loop' = IF w_running THEN "consume" ELSE "exited"
    /\ UNCHANGED <<w_running, w_max, w_value, w_pending, w_jobs, w_outcome, w_taken>>
    /\ StartFrame

\* task = await self.consume_task() ends: a task is handed to
\* asyncio.create_task(process_with_semaphore(task)) without being awaited;
\* None (an empty queue, or an error inside consume_task) leads to the sleep
ConsumeTurn ==
    /\ w_loop = "consume"
    /\ \E fails \in BOOLEAN :
        IF w_pending # <<>> /\ ~fails
        THEN /\ w_pending' = Tail(w_pending)
             /\ w_jobs' = [w_jobs EXCEPT ![Head(w_pending)] = "waiting"]
             /\ w_taken' = [w_taken EXCEPT ![Head(w_pending)] = @ + 1]
             /\ w_loop' = "test"
        ELSE /\ w_loop' = "sleep"
             /\ UNCHANGED <<w_pending, w_jobs, w_taken>>
    /\ UNCHANGED <<w_running, w_max, w_value, w_outcome>>
    /\ StartFrame

\* await asyncio.sleep(1) is over
SleepEnds ==
    /\ w_loop = "sleep"
    /\ w_loop' = "test"
    /\ UNCHANGED <<w_running, w_max, w_value, w_pending, w_jobs, w_outcome, w_taken>>
    /\ StartFrame

\* process_with_semaphore(task): `async with semaphore` takes a slot and
\* process_task begins
EnterSemaphore(t) ==
    /\ w_jobs[t] = "waiting"
    /\ ~Locked(w_value)
    /\ w_value' = w_value - 1
    /\ w_jobs' = [w_jobs EXCEPT ![t] = "running"]
    /\ UNCHANGED <<w_running, w_max, w_pending, w_loop, w_outcome, w_taken>>
    /\ StartFrame

\* process_task ends, having handed over all results or having failed;
\* leaving `async with` gives the slot back
ExitSemaphore(t) ==
    /\ w_jobs[t] = "running"
    /\ w_value' = w_value + 1
    /\ w_jobs' = [w_jobs EXCEPT ![t] = "done"]
    /\ \E outcome \in ProcessOutcomes :
        /\ w_outcome' = [w_outcome EXCEPT ![t] = outcome]
        /\ w_pending' = PendingAfter(w_pending, t, outcome)
    /\ UNCHANGED <<w_running, w_max, w_loop, w_taken>>
    /\ StartFrame

\* stop(): self.running = False
Stop ==
    /\ w_running
    /\ w_running' = FALSE
    /\ UNCHANGED <<w_max, w_value, w_pending, w_jobs, w_loop, w_outcome, w_taken>>
    /\ StartFrame

\* the jobs after the event loop is closed: asyncio.run cancels every task
\* that is still pending, those waiting for the semaphore and those inside
\* process_task
JobsAfterClose(jobs) ==
    [t \in Arrivals |-> IF jobs[t] \in {"waiting", "running"} THEN "cancelled"
                        ELSE jobs[t]]

\* main() of the worker: after `await consumer.stop()` it awaits the task
\* running start(), which has returned, and returns itself
WorkerFinishes ==
    /\ w_loop = "exited"
    /\ w_loop' = "closed"
    /\ w_jobs' = JobsAfterClose(w_jobs)
    /\ UNCHANGED <<w_running, w_max, w_value, w_pending, w_outcome, w_taken>>
    /\ StartFrame

StartNext ==
    \/ CallStart
    \/ \E t \in Arrivals : TaskArrives(t)
    \/ LoopTest
    \/ ConsumeTurn
    \/ SleepEnds
    \/ \E t \in Arrivals : EnterSemaphore(t)
    \/ \E t \in Arrivals : ExitSemaphore(t)

ShutdownNext ==
    \/ StartNext
    \/ Stop
    \/ WorkerFinishes

ListedSubstrings ==
    {"env", "config", "secret", "password", "credential", "token", "key",
     "private", ".pem", ".key", ".ppk", "backup", ".sql", ".db", "database",
     "admin", "wp-config", ".git", ".aws", "id_rsa"}
ListedWithDotEnv == (ListedSubstrings \ {"env"}) \cup {".env"}

\* the keys, in order, whose lowercase form contains one of the substrings
KeysContaining(keys, substrings) ==
    SelectSeq(keys, LAMBDA key :
        \E sub \in substrings : Contains(Lower(Chars(key)), Chars(sub)))

\* C29, as stated: in a scan result sensitive_files is exactly the keys of
\* files_found whose lowercase form contains at least one substring of the
\* list env, config, secret, ..., id_rsa.
C29_SensitiveFilesByListedSubstrings ==
    (s_pc = "done" /\ ~s_raised /\ s_result.files_found # Nothing) =>
        s_result.sensitive_files =
            Some(KeysContaining(s_result.files_found[1], ListedSubstrings))

\* C29, amended: in a scan result sensitive_files is exactly the keys of
\* files_found, in their order, whose lowercase form contains at least one
\* substring of the list with .env in the place of env: no matching key is
\* omitted and no other key is included.
C29_SensitiveFilesByDotEnvList ==
    (s_pc = "done" /\ ~s_raised /\ s_result.files_found # Nothing) =>
        s_result.sensitive_files =
            Some(KeysContaining(s_result.files_found[1], ListedWithDotEnv))

\* a result whose listing holds a key with env but not .env, left out, and a
\* key that matches only in its lowercase form, included
C29_Witness ==
    /\ s_pc = "done" /\ ~s_raised
    /\ s_result.files_found = Some(<<"env.txt", "Backup.SQL">>)
    /\ s_result.sensitive_files = Some(<<"Backup.SQL">>)

(***************************************************************************)
(* Claims about the translation of permission strings                      *)
(***************************************************************************)
\* C30: analyze_permissions translates raw permission strings by the fixed
\* synonym mapping (LIST iff 'list' is present, READ iff 'read' or 'get',
\* WRITE iff 'write' or 'put', DELETE iff 'delete'), yields each permission
\* type at most once, and sets is_writable to true exactly when the translated
\* permissions contain WRITE, DELETE or WRITE_ACL.
C30_SynonymMappingAndWritable ==
    k_pc = "done" =>
        LET raw == k_args.permissions
            types == k_ret.permissions
            has(type) == \E i \in 1..Len(types) : types[i] = type
        IN /\ has("LIST") <=> "list" \in raw
           /\ has("READ") <=> ("read" \in raw \/ "get" \in raw)
           /\ has("WRITE") <=> ("write" \in raw \/ "put" \in raw)
           /\ has("DELETE") <=> "delete" \in raw
           /\ \A i \in 1..Len(types) : types[i] \in {"LIST", "READ", "WRITE", "DELETE"}
           /\ \A i, j \in 1..Len(types) : types[i] = types[j] => i = j
           /\ k_ret.is_writable <=> (has("WRITE") \/ has("DELETE") \/ has("WRITE_ACL"))

\* both synonyms of READ and one of WRITE were passed
C30_Witness ==
    /\ k_pc = "done"
    /\ k_args.permissions = {"read", "get", "put", "write_acl"}
    /\ k_ret.permissions = <<"READ", "WRITE">>
    /\ k_ret.is_writable

(***************************************************************************)
(* Claims about the recommendations of PermissionChecker                   *)
(***************************************************************************)
\* lines occurs in recommendations as a run of consecutive lines
HoldsLines(recommendations, lines) ==
    \E i \in 0..(Len(recommendations) - Len(lines)) :
        SubSeq(recommendations, i + 1, i + Len(lines)) = lines

\* C31: analyze_permissions always returns a non-empty recommendations list:
\* when is_public it holds the generic 'publicly accessible' line followed by
\* the provider's guidance lines; when is_writable it holds the public-write
\* warning lines; when files_found is non-empty it holds the file-count note;
\* and it is the single 'appears to be properly secured' line exactly when
\* none of these conditions holds.
C31_RecommendationsNeverEmpty ==
    k_pc = "done" =>
        LET rec == k_ret.recommendations
            files == IF k_args.files_found = Nothing THEN <<>> ELSE k_args.files_found[1]
            guidance ==
                IF k_args.provider = "aws_s3"
                THEN <<<<"Consider enabling AWS S3 Block Public Access settings.">>,
                       <<"Review bucket ACL and bucket policies for AllUsers grants.">>>>
                ELSE IF k_args.provider = "gcp_gcs"
                THEN <<<<"Check IAM policy for 'allUsers' or 'allAuthenticatedUsers' members.">>,
                       <<"Consider using signed URLs for temporary access instead.">>>>
                ELSE IF k_args.provider = "azure_blob"
                THEN <<<<"Change container public access level to 'Private'.">>,
                       <<"Use Shared Access Signatures (SAS) for controlled access.">>>>
                ELSE <<>>
        IN /\ rec # <<>>
           /\ k_ret.is_public =>
                HoldsLines(rec, <<PubliclyAccessibleLine>> \o guidance)
           /\ k_ret.is_writable => HoldsLines(rec, PublicWriteLines)
           /\ files # <<>> => HoldsLines(rec, <<FileCountLine(Len(files))>>)
           /\ rec = <<ProperlySecuredLine>>
                <=> (~k_ret.is_public /\ ~k_ret.is_writable /\ files = <<>>)

\* a private, read-only bucket with no files: the single line
C31_Witness ==
    /\ k_pc = "done"
    /\ ~k_args.is_public
    /\ k_args.permissions = {"list", "read"}
    /\ k_args.files_found = Some(<<>>)
    /\ k_ret.recommendations = <<ProperlySecuredLine>>

(***************************************************************************)
(* Claims about the findings of ContentAnalyzer.analyze                    *)
(***************************************************************************)
\* the files of the list, in input order, that a pattern of category k matches
MatchingFiles(files, k) ==
    SelectSeq(files, LAMBDA file : CategoryMatches[file][k])

CategoryNames == {SENSITIVE_PATTERNS[k].category : k \in 1..Len(SENSITIVE_PATTERNS)}
CategoryIndex(category) ==
    CHOOSE k \in 1..Len(SENSITIVE_PATTERNS) : SENSITIVE_PATTERNS[k].category = category

\* the findings are one per category with a match, each with the severity of
\* its category, the number of matching files and the first ten of them
FindingsAsClaimed(files, findings) ==
    /\ \A r \in 1..Len(findings) : findings[r].category \in CategoryNames
    /\ \A k \in 1..Len(SENSITIVE_PATTERNS) :
         Cardinality({r \in 1..Len(findings) :
                         findings[r].category = SENSITIVE_PATTERNS[k].category})
            = IF MatchingFiles(files, k) # <<>> THEN 1 ELSE 0
    /\ \A r \in 1..Len(findings) :
         LET f == findings[r]
             matching == MatchingFiles(files, CategoryIndex(f.category))
         IN /\ f.category \in {"credentials", "private_keys", "cloud_config"}
                  => f.severity = "critical"
            /\ f.category \in {"database", "config_files"} => f.severity = "high"
            /\ f.category \in {"source_code", "logs"} => f.severity = "medium"
            /\ f.count = Len(matching)
            /\ f.files = SubSeq(matching, 1, Min(10, f.count))

\* C32: analyze emits exactly one finding per category that matched at least
\* one file and none for a category without matches; each finding's severity
\* is fixed by its category, its count is the full number of matching files,
\* and its sample list is the first min(10, count) matching files in input
\* order.  An empty file list yields total_files 0, risk_score 0, no sensitive
\* files, no file types and no findings.
C32_OneFindingPerMatchedCategory ==
    c_last.result # <<>> =>
        /\ FindingsAsClaimed(c_last.files, LastResult.findings)
        /\ c_last.files = <<>> =>
             /\ LastResult.total_files = 0
             /\ LastResult.risk_score = 0
             /\ LastResult.sensitive_files = <<>>
             /\ DOMAIN LastResult.file_types = {}
             /\ LastResult.findings = <<>>

(***************************************************************************)
(* Claims about the priority of scan tasks                                 *)
(***************************************************************************)
\* C33: a scan task published with a higher priority value is more urgent: it
\* is consumed before every task of lower priority that is still waiting in
\* the queue at that time; so a task that is taken from the queue leaves no
\* task of higher priority waiting.
C33_HigherPriorityConsumedFirst ==
    [][\A c \in Consumers :
         (q_con[c].pc = "sent" /\ q_con'[c].pc = "applied") =>
            \A i \in 1..Len(q_list') :
                JsonLoads(q_list'[i]).priority
                    <= JsonLoads(q_con'[c].task[1]).priority]_queueVars

(***************************************************************************)
(* Claims about the third detection layer of the GCS probe                 *)
(***************************************************************************)
\* the call returned from the sample listing, the third layer
ReturnedFromSampleListing ==
    /\ a_pc = "done" /\ a_provider = "gcp_gcs" /\ ~a_ret.aborted
    /\ a_ret.evaluated = <<"http", "iam", "list">>
    /\ a_ret.level # PRIVATE

\* C34: the GCS probe's third detection layer tests anonymous access: whether
\* or not the probe was constructed with service-account credentials, it
\* classifies a bucket as public_read from a sample listing only if an
\* unauthenticated caller can list at least one object, never merely because
\* the probe's own credentials can read the bucket.
C34_SampleListingIsAnonymous ==
    (ReturnedFromSampleListing /\ a_ret.level = PUBLIC_READ) =>
        (a_env.bucket.anonymous_list /\ a_env.bucket.objects > 0)

(***************************************************************************)
(* The life of a ScanTask (routes.py, repository.py, worker_service.py)    *)
(***************************************************************************)
\* the number of requests to the queue endpoint
MaxScanTasks == 3

TaskIds == 1..MaxScanTasks
NoTask == 0

\* db.create_scan_task({..., 'status': 'pending', ...}): the row of the task
CreateScanTask(db, task_id) == [db EXCEPT ![task_id] = "pending"]

\* POST /scan/queue: the task row is created, then the task is published with
\* metadata {'task_id': task.id}; a failed publish answers 500 and leaves the
\* row behind
ScanBucketQueued ==
    /\ j_next <= MaxScanTasks
    /\ j_db' = CreateScanTask(j_db, j_next)
    /\ \E success \in BOOLEAN :
        j_list' = IF success THEN Lpush(j_list, j_next) ELSE j_list
    /\ j_next' = j_next + 1
    /\ UNCHANGED <<j_work, j_processed, j_report>>
    /\ TaskFrame

\* the worker's consume loop takes a message from the queue
WorkerConsumes ==
    /\ j_work = NoTask
    /\ j_list # <<>>
    /\ j_work' = Popped(j_list).value
    /\ j_list' = Popped(j_list).rest
    /\ UNCHANGED <<j_next, j_db, j_processed, j_report>>
    /\ TaskFrame

\* process_task(task, result_callback) runs to its end: the scan, and
\* result_callback for every result, which writes scan results (and raises or
\* not); neither reads metadata['task_id'] nor writes a ScanTask row
WorkerProcesses ==
    /\ j_work # NoTask
    /\ j_processed' = j_processed \cup {j_work}
    /\ j_work' = NoTask
    /\ UNCHANGED <<j_next, j_db, j_list, j_report>>
    /\ TaskFrame

\* GET /task/{task_id}: task.to_dict() of the stored row, or 404
GetTaskStatus ==
    /\ \E task_id \in TaskIds :
        j_report' = IF j_db[task_id] = "absent"
                    THEN [task_id |-> task_id, status |-> "404"]
                    ELSE [task_id |-> task_id, status |-> j_db[task_id]]
    /\ UNCHANGED <<j_next, j_db, j_list, j_work, j_processed>>
    /\ TaskFrame

TaskNext ==
    \/ ScanBucketQueued
    \/ WorkerConsumes
    \/ WorkerProcesses
    \/ GetTaskStatus

(***************************************************************************)
(* Claims about the status of a ScanTask                                   *)
(***************************************************************************)
\* C35: a ScanTask moves through the statuses pending, processing, then
\* completed or failed: once a worker has consumed and processed the queue
\* message of a task created by the queue endpoint, the status the task-status
\* endpoint reports is completed or failed and never still pending.
C35_ProcessedTaskIsCompletedOrFailed ==
    \A task_id \in j_processed :
        /\ j_db[task_id] \in {"completed", "failed"}
        /\ j_report.task_id = task_id => j_report.status \in {"completed", "failed"}

(***************************************************************************)
(* Claims about failed tasks                                               *)
(***************************************************************************)
\* C36: a task is removed from the queue at the moment it is consumed and is
\* never re-queued or retried: if process_task fails for it, the failure is
\* only logged, the results not yet handed over are never delivered, and the
\* consumer loop continues with the next task.
C36_FailedTaskIsDropped ==
    /\ [](\A t \in Arrivals :
            /\ w_taken[t] <= 1
            /\ w_taken[t] = 1 => \A i \in 1..Len(w_pending) : w_pending[i] # t
            /\ w_outcome[t].failed => w_loop \in {"test", "consume", "sleep"})
    /\ [][\A t \in Arrivals :
            w_outcome[t].ended =>
                /\ w_outcome'[t] = w_outcome[t]
                /\ w_jobs'[t] = "done"]_startVars

\* a task has failed with a result not handed over, and a task that arrived
\* later is being processed
C36_Witness ==
    /\ w_outcome[1].failed
    /\ w_outcome[1].undelivered = 1
    /\ w_jobs[1] = "done"
    /\ w_jobs[2] = "running"
    /\ w_max = 1

(***************************************************************************)
(* Claims about the bounds of the adaptive rate                            *)
(***************************************************************************)
\* C37: after any sequence of report_success and report_failure calls on an
\* AdaptiveRateLimiter constructed with 1 <= min_rate <= initial_rate <=
\* max_rate, min_rate <= max_requests <= max_rate holds; in particular
\* max_requests never reaches 0, so acquire's wait interval
\* time_window / max_requests is always defined.
C37_RateStaysWithinBounds ==
    r_kind = "AdaptiveRateLimiter" =>
        /\ r_min_rate <= r_max_requests
        /\ r_max_requests <= r_max_rate
        /\ r_max_requests > 0

\* three failures in a row have halved the rate, and min_rate has stopped it
C37_Witness ==
    /\ r_kind = "AdaptiveRateLimiter"
    /\ r_streak.kind = "failure" /\ r_streak.n >= 3
    /\ r_streak.from = 3
    /\ r_min_rate = 2
    /\ r_max_requests = 2

(***************************************************************************)
(* Claims about the shutdown of the worker                                 *)
(***************************************************************************)
\* stop() has been called and has completed
Stopped == w_loop # "idle" /\ ~w_running

\* C38: shutdown is graceful: after stop() is called the consume loop of
\* start() eventually exits, no task is taken from the queue once stop() has
\* completed, and every task taken from the queue before that has been
\* processed to the end, with its results handed to the result handler, before
\* the worker process finishes.
C38_ShutdownIsGraceful ==
    /\ Stopped ~> (w_loop \in {"exited", "closed"})
    /\ [][Stopped => w_taken' = w_taken]_startVars
    /\ [](w_loop = "closed" =>
            \A t \in Arrivals : w_taken[t] > 0 => w_jobs[t] = "done")

(***************************************************************************)
(* HTTPProbe (workers/http_probe.py)                                       *)
(***************************************************************************)
\* the largest max_retries a probe is constructed with
MaxRetries == 3

\* the names bound at module level of http_probe.py: its imports, its logger
\* and its two classes; the only `import asyncio` of the file is local to
\* probe_bucket_urls
ModuleGlobals == {"httpx", "Optional", "Dict", "Any", "dataclass", "structlog",
                  "logger", "ProbeResult", "HTTPProbe"}

ProbeUrls == {"https://b.s3.amazonaws.com", "https://storage.googleapis.com/b"}
ProbeMethods == {"GET", "HEAD"}

\* how the request of one probe ends: a response with a status, or an exception
ResponseStatuses == {200, 301, 403, 404, 500}
RequestExceptions == {"TimeoutException", "RequestError", "Exception"}
RequestOutcomes ==
    {[exc |-> NoExc, status |-> st] : st \in ResponseStatuses}
        \cup {[exc |-> e, status |-> 0] : e \in RequestExceptions}

\* probe(url, method): every outcome becomes a ProbeResult, none is raised;
\* status_code 0 stands for None, and has_length tells whether content_length
\* is a number
Probe(url, method, outcome) ==
    IF outcome.exc = NoExc
    THEN [url |-> url, status_code |-> outcome.status, success |-> outcome.status < 400,
          has_length |-> method = "GET", error |-> None]
    ELSE [url |-> url, status_code |-> 0, success |-> FALSE, has_length |-> FALSE,
          error |-> IF outcome.exc = "TimeoutException" THEN "Timeout" ELSE outcome.exc]

\* probe_with_retry(url, method) is called on a probe constructed with
\* max_retries: last_result = None
CallProbeWithRetry ==
    /\ h_pc = "idle"
    /\ \E max_retries \in 0..MaxRetries, url \in ProbeUrls, method \in ProbeMethods :
        /\ h_max' = max_retries
        /\ h_args' = [url |-> url, method |-> method]
    /\ h_pc' = "for"
    /\ h_attempt' = 0
    /\ h_last' = <<>>
    /\ UNCHANGED <<h_ret, h_exc, h_results, h_slept>>
    /\ ProbeFrame

\* for attempt in range(self.max_retries): the next attempt, or the end of the
\* loop and `return last_result`
ForAttempt ==
    /\ h_pc = "for"
    /\ IF h_attempt < h_max
       THEN /\ h_pc' = "probe"
            /\ UNCHANGED h_ret
       ELSE /\ h_pc' = "returned"
            /\ h_ret' = h_last
    /\ UNCHANGED <<h_max, h_args, h_attempt, h_last, h_exc, h_results, h_slept>>
    /\ ProbeFrame

\* result = await self.probe(url, method); a success returns, a failure is
\* kept and, unless the attempt is the last, goes on to the pause
AwaitProbe ==
    /\ h_pc = "probe"
    /\ \E outcome \in RequestOutcomes :
        LET result == Probe(h_args.url, h_args.method, outcome)
        IN /\ h_results' = Append(h_results, result)
           /\ IF result.success
              THEN /\ h_pc' = "returned"
                   /\ h_ret' = <<result>>
                   /\ UNCHANGED <<h_last, h_attempt>>
              ELSE /\ h_last' = <<result>>
                   /\ UNCHANGED h_ret
                   /\ IF h_attempt < h_max - 1
                      THEN /\ h_pc' = "sleep"
                           /\ UNCHANGED h_attempt
                      ELSE /\ h_pc' = "for"
                           /\ h_attempt' = h_attempt + 1
    /\ UNCHANGED <<h_max, h_args, h_exc, h_slept>>
    /\ ProbeFrame

\* await asyncio.sleep(1): the name asyncio is looked up in the module's
\* globals, and a name that is not bound there raises NameError out of
\* probe_with_retry
AwaitSleep ==
    /\ h_pc = "sleep"
    /\ IF "asyncio" \in ModuleGlobals
       THEN /\ h_pc' = "for"
            /\ h_attempt' = h_attempt + 1
            /\ h_slept' = h_slept + 1
            /\ UNCHANGED h_exc
       ELSE /\ h_pc' = "raised"
            /\ h_exc' = "NameError"
            /\ UNCHANGED <<h_attempt, h_slept>>
    /\ UNCHANGED <<h_max, h_args, h_last, h_ret, h_results>>
    /\ ProbeFrame

ProbeNext ==
    \/ CallProbeWithRetry
    \/ ForAttempt
    \/ AwaitProbe
    \/ AwaitSleep

(***************************************************************************)
(* Claims about HTTPProbe.probe_with_retry                                 *)
(***************************************************************************)
\* C40: probe_with_retry retries automatically on failure: it makes at most
\* max_retries probe attempts, returns the first successful result
\* immediately, otherwise pauses briefly between attempts and returns the
\* result of the last failed attempt; it never raises.
C40_ProbeWithRetryNeverRaises ==
    /\ h_pc # "raised"
    /\ Len(h_results) <= h_max
    /\ \A i \in 1..Len(h_results) :
          h_results[i].success => (i = Len(h_results) /\ h_pc = "returned")
    /\ h_slept >= Len(h_results) - 1
    /\ (h_pc = "returned" /\ h_results # <<>>) =>
          /\ h_ret = <<h_results[Len(h_results)]>>
          /\ ~h_ret[1].success => Len(h_results) = h_max

(***************************************************************************)
(* Specifications                                                          *)
(***************************************************************************)
vars == <<orchVars, existsVars, accessVars, listVars, scanVars, permVars, analyzerVars, checkerVars, consumerVars, limiterVars, queueVars, saveVars, startVars, taskVars, probeVars>>

\* the orchestrator is constructed and no operation is in progress
Init ==
    /\ o_pc = "idle"
    /\ o_op = "none"
    /\ o_names = <<>>
    /\ o_provider = None
    /\ o_calls = <<>>
    /\ o_out = <<>>
    /\ o_raised = FALSE
    /\ o_scanners = NewScanners
    /\ e_pc = "idle"
    /\ e_provider = None
    /\ e_env = None
    /\ e_consulted = FALSE
    /\ e_result = None
    /\ e_raised = FALSE
    /\ a_pc = "idle"
    /\ a_provider = None
    /\ a_env = None
    /\ a_ret = None
    /\ a_raised = FALSE
    /\ l_pc = "idle"
    /\ l_provider = None
    /\ l_args = None
    /\ l_ret = None
    /\ l_raised = FALSE
    /\ s_pc = "idle"
    /\ s_provider = None
    /\ s_bucket = None
    /\ s_local = NoLocals
    /\ s_calls = <<>>
    /\ s_exc = NoException
    /\ s_result = None
    /\ s_raised = FALSE
    /\ p_pc = "idle"
    /\ p_provider = None
    /\ p_env = None
    /\ p_ret = None
    /\ p_raised = FALSE
    /\ c_last = NoAnalysis
    /\ c_prev = NoAnalysis
    /\ k_pc = "idle"
    /\ k_args = None
    /\ k_ret = None
    /\ t_pc = "idle"
    /\ t_task = [bucket_name |-> "", provider |-> None]
    /\ t_callback = FALSE
    /\ t_scans = <<>>
    /\ t_results = Nothing
    /\ t_handed = <<>>
    /\ t_raised = FALSE
    /\ r_kind = "none"
    /\ r_max_requests = 0
    /\ r_requests = <<>>
    /\ r_callers = [c \in Callers |-> IdleCaller]
    /\ r_min_rate = 0
    /\ r_max_rate = 0
    /\ r_success_count = 0
    /\ r_failure_count = 0
    /\ r_streak = NoStreak
    /\ r_granted = <<>>
    /\ q_list = <<>>
    /\ q_pub = [p \in Producers |-> IdleCall]
    /\ q_con = [c \in Consumers |-> IdleCall]
    /\ q_next = 1
    /\ q_published = <<>>
    /\ q_consumed = <<>>
    /\ d_result = NoResult
    /\ d_rows = NoRows
    /\ w_running = FALSE
    /\ w_max = 0
    /\ w_value = 0
    /\ w_pending = <<>>
    /\ w_jobs = [t \in Arrivals |-> "none"]
    /\ w_loop = "idle"
    /\ w_outcome = [t \in Arrivals |-> NotEnded]
    /\ w_taken = [t \in Arrivals |-> 0]
    /\ j_next = 1
    /\ j_db = [task_id \in TaskIds |-> "absent"]
    /\ j_list = <<>>
    /\ j_work = NoTask
    /\ j_processed = {}
    /\ j_report = [task_id |-> NoTask, status |-> "404"]
    /\ h_pc = "idle"
    /\ h_max = 0
    /\ h_args = [url |-> "", method |-> "GET"]
    /\ h_attempt = 0
    /\ h_last = <<>>
    /\ h_ret = <<>>
    /\ h_exc = None
    /\ h_results = <<>>
    /\ h_slept = 0

SpecOrch == Init /\ [][OrchNext]_vars

SpecExists == Init /\ [][ExistsNext]_vars

SpecAccess == Init /\ [][AccessNext]_vars

SpecList == Init /\ [][ListNext]_vars

SpecScan == Init /\ [][ScanNext]_vars

SpecPerm == Init /\ [][PermNext]_vars

SpecAnalyzer == Init /\ [][AnalyzerNext]_vars

SpecChecker == Init /\ [][CheckerNext]_vars

SpecConsumer == Init /\ [][ConsumerNext]_vars

SpecLimiter == Init /\ [][LimiterNext]_vars

SpecAdaptive == Init /\ [][AdaptiveNext]_vars

SpecQueue == Init /\ [][QueueNext]_vars

SpecSave == Init /\ [][SaveNext]_vars

SpecS3Access == Init /\ [][S3AccessNext]_vars
SpecGcsAccess == Init /\ [][GcsAccessNext]_vars

\* the event loop runs every ready coroutine, and every process_task ends
SpecStart ==
    /\ Init /\ [][StartNext]_vars
    /\ \A t \in Arrivals : WF_vars(EnterSemaphore(t)) /\ WF_vars(ExitSemaphore(t))

\* the worker with its shutdown: in addition every await of the loop ends
\* (consume_task returns after its timeout at the latest, the sleep is over)
SpecShutdown ==
    /\ Init /\ [][ShutdownNext]_vars
    /\ \A t \in Arrivals : WF_vars(EnterSemaphore(t)) /\ WF_vars(ExitSemaphore(t))
    /\ WF_vars(LoopTest) /\ WF_vars(ConsumeTurn) /\ WF_vars(SleepEnds)

SpecTask == Init /\ [][TaskNext]_vars

SpecProbe == Init /\ [][ProbeNext]_vars

====
